---- MODULE Spec2Model ----
(***************************************************************************)
(* A model of the ReminderSync plugin (obsidian-reminder-sync): the        *)
(* serialization gate withSyncLock and the triggers that submit work to    *)
(* it, Direction A (reminders -> journal) and Direction B (journal ->      *)
(* reminders).                                                             *)
(*                                                                         *)
(* Twelve specifications share the variables:                              *)
(*   Spec     the gate and its triggers, each body a few atomic steps;     *)
(*   FairSpec Spec with the fairness of promise jobs and body steps;       *)
(*   SpecA    one Direction A pass after another, call by call, every      *)
(*            gateway and vault call free to fail;                         *)
(*   SpecB    a Direction B pass (folder or single file), line by line;    *)
(*   SpecC    two such passes over one note, a reminder being completed    *)
(*            in the Reminders application in between;                     *)
(*   SpecT    the title classifier applied to every short title;           *)
(*   SpecM    Direction A started on every short journal note;             *)
(*   SpecG    the gateway functions, call by call, with the outcome of     *)
(*            the external process as an input;                            *)
(*   SpecL    onload from the state after construction, then the gate;     *)
(*   SpecD    the gate with a clock of seconds: the debounce timers;       *)
(*   SpecU    the gate with its timers and onunload;                       *)
(*   SpecS    SpecD on one path with a command given at any moment.        *)
(* SpecA, SpecB and SpecC rest on the gate: passes never overlap.          *)
(*                                                                         *)
(* Time is counted in whole hours since an epoch at UTC midnight; a local  *)
(* calendar day is a day number, day d running from instant 24*d - tz to   *)
(* 24*(d+1) - tz where tz is the local offset east of UTC in hours.        *)
(* Text is a sequence of tokens (short strings); a note is a sequence of   *)
(* lines, a line a sequence of tokens.                                     *)
(***************************************************************************)
EXTENDS Integers, Sequences, FiniteSets, TLC

VARIABLES
    \* ---- ReminderSyncPlugin fields (the serialization gate) ----
    syncLock,            \* this.syncLock
    syncQueue,           \* this.syncQueue: 0 = the initial Promise.resolve(),
                         \* k = the promise task_k.then(noop, noop)
    globalSyncing,       \* this.globalSyncing
    syncDebounceTimers,  \* this.syncDebounceTimers: paths with a pending timer
    syncIntervalId,      \* TRUE while the auto-sync interval is installed
    startupPending,      \* the onload setTimeout(..., 1000) has not fired yet
    reading,             \* debounce callbacks suspended at await vault.read(file)
    calls,               \* every withSyncLock call so far, in submission order
    startOrder,          \* ids of the calls whose body has started, in start order
    \* ---- the two stores ----
    reminders,           \* the native reminders list (sequence of Reminder)
    journal,             \* path (day number) -> [exists, lines]
    \* ---- the clock ----
    now,                 \* current instant, hours
    tz,                  \* local timezone offset, hours east of UTC
    \* ---- one Direction A pass (locals of syncRemindersToJournalInternal) ----
    passA,
    \* ---- one Direction B pass (locals of sync*ToRemindersInternal) ----
    passB,
    \* ---- history of gateway and vault calls ----
    log

gateVars == <<syncLock, syncQueue, globalSyncing, syncDebounceTimers,
              syncIntervalId, startupPending, reading, calls, startOrder>>
storeVars == <<reminders, journal>>
clockVars == <<now, tz>>
vars == <<syncLock, syncQueue, globalSyncing, syncDebounceTimers,
          syncIntervalId, startupPending, reading, calls, startOrder,
          reminders, journal, now, tz, passA, passB, log>>

(***************************************************************************)
(* Bounds of the model.                                                    *)
(***************************************************************************)
\* the calls of withSyncLock and the preview commands of a behaviour
MaxCalls == 3

NoDue == -1

(***************************************************************************)
(* Text helpers: String.prototype.includes, trim, split/join on tokens.    *)
(***************************************************************************)
Digits == {"0", "1", "2", "3", "4", "5", "6", "7", "8", "9"}

DigitVal(c) ==
    CASE c = "0" -> 0 [] c = "1" -> 1 [] c = "2" -> 2 [] c = "3" -> 3
      [] c = "4" -> 4 [] c = "5" -> 5 [] c = "6" -> 6 [] c = "7" -> 7
      [] c = "8" -> 8 [] c = "9" -> 9

DigitChar(n) ==
    CASE n = 0 -> "0" [] n = 1 -> "1" [] n = 2 -> "2" [] n = 3 -> "3"
      [] n = 4 -> "4" [] n = 5 -> "5" [] n = 6 -> "6" [] n = 7 -> "7"
      [] n = 8 -> "8" [] n = 9 -> "9"

\* s.indexOf(sub) + 1: the first position where sub occurs in s, 0 if none
IndexOf(s, sub) ==
    LET hits == {i \in 1..(Len(s) - Len(sub) + 1) :
                    SubSeq(s, i, i + Len(sub) - 1) = sub}
    IN  IF hits = {} THEN 0 ELSE CHOOSE i \in hits : \A j \in hits : i <= j

\* s.includes(sub)
Includes(s, sub) == IndexOf(s, sub) # 0

\* s.trim()
Trim(s) ==
    LET solid == {i \in 1..Len(s) : s[i] # " "}
    IN  IF solid = {} THEN <<>>
        ELSE SubSeq(s, CHOOSE i \in solid : \A j \in solid : i <= j,
                       CHOOSE i \in solid : \A j \in solid : i >= j)

\* content.includes(record) for a record without a line break: some line of the
\* note holds it as a substring
ContentIncludes(lines, record) ==
    \E i \in 1..Len(lines) : Includes(lines[i], record)

(***************************************************************************)
(* The configuration (config.json): "$" stands for the expense emoji.      *)
(***************************************************************************)
expenseEmoji == "$"
categories == {"cy", "jt"}
\* keyword -> trigger phrases, in the order Object.entries yields them
smartKeywords == << [key |-> "jt", triggers |-> {"taxi"}] >>
videoKeywords == << [key |-> "mv", triggers |-> {"film"}] >>
habitKeywords == << [key |-> "pb", triggers |-> {"jog"}] >>
habitPrefix == "#"
Units == {"yuan"}

\* /\d/.test(title)
HasDigit(title) == \E i \in 1..Len(title) : title[i] \in Digits

\* the first position >= i of s that holds no blank (Len(s)+1 if none): \s*
SkipBlanks(s, i) ==
    LET solid == {j \in i..Len(s) : s[j] # " "}
    IN  IF solid = {} THEN Len(s) + 1
        ELSE CHOOSE j \in solid : \A k \in solid : j <= k

\* keywordRegex.exec(title) anchored at an emoji at position i, the keyword at
\* position k (the first non-blank after i): emoji \s* (keyword) \s* (.+).
\* (.+) needs one character at least: when only blanks follow the keyword,
\* \s* gives the last one back.
RestFrom(title, r) ==
    IF r <= Len(title) THEN SubSeq(title, r, Len(title)) ELSE <<title[Len(title)]>>

MatchesAt(title, i, k) ==
    title[i] = expenseEmoji /\ k < Len(title) /\ title[k] \in categories

\* the position of the keyword in the leftmost match, 0 if there is none
KeywordPos(title) ==
    LET ks == {SkipBlanks(title, i + 1) : i \in
                 {j \in 1..Len(title) : MatchesAt(title, j, SkipBlanks(title, j + 1))}}
    IN  IF ks = {} THEN 0 ELSE CHOOSE k \in ks : \A y \in ks : k <= y

\* Returns [ok, keyword, rest].
MatchOf(title, k) ==
    IF k = 0 THEN [ok |-> FALSE, keyword |-> "", rest |-> <<>>]
    ELSE [ok |-> TRUE, keyword |-> title[k],
          rest |-> RestFrom(title, SkipBlanks(title, k + 1))]

KeywordMatch(title) == MatchOf(title, KeywordPos(title))

\* restContent.match(/[\d.]+/): [from, to] of the first run of digits and
\* dots, <<0,0>> if none
AmountChars == Digits \cup {"."}

AmountRun(rest) ==
    LET ds == {i \in 1..Len(rest) : rest[i] \in AmountChars}
    IN  IF ds = {} THEN <<0, 0>>
        ELSE LET a == CHOOSE i \in ds : \A j \in ds : i <= j
                 ends == {e \in a..Len(rest) :
                            /\ \A j \in a..e : rest[j] \in AmountChars
                            /\ (e = Len(rest) \/ rest[e + 1] \notin AmountChars)}
             IN  <<a, CHOOSE e \in ends : TRUE>>

\* a number as parseFloat yields it: the whole part and the fraction digits
\* without trailing zeros, or NaN
NaN == [nan |-> TRUE, int |-> 0, frac |-> <<>>]
Zero == [nan |-> FALSE, int |-> 0, frac |-> <<>>]

\* !isNaN(amount) && amount > 0
IsPositive(a) == ~a.nan /\ (a.int > 0 \/ a.frac # <<>>)

\* the digits a text starts with
RECURSIVE LeadingDigits(_)
LeadingDigits(s) ==
    IF s # <<>> /\ s[1] \in Digits THEN <<s[1]>> \o LeadingDigits(Tail(s)) ELSE <<>>

\* the value of a run of digits
RECURSIVE DigitsValue(_)
DigitsValue(run) ==
    IF run = <<>> THEN 0
    ELSE 10 * DigitsValue(SubSeq(run, 1, Len(run) - 1)) + DigitVal(run[Len(run)])

RECURSIVE StripZeros(_)
StripZeros(ds) ==
    IF ds # <<>> /\ ds[Len(ds)] = "0" THEN StripZeros(SubSeq(ds, 1, Len(ds) - 1))
    ELSE ds

\* the number a whole part and the text after it make
FloatOf(whole, after) ==
    LET frac == IF after # <<>> /\ after[1] = "." THEN LeadingDigits(Tail(after))
                ELSE <<>>
    IN  IF whole = <<>> /\ frac = <<>> THEN NaN
        ELSE [nan |-> FALSE, int |-> DigitsValue(whole), frac |-> StripZeros(frac)]

\* parseFloat of a run of digits and dots: the longest prefix of the form
\* digits [. digits] with a digit in it, NaN when there is none
ParseFloat(run) ==
    FloatOf(LeadingDigits(run),
            SubSeq(run, Len(LeadingDigits(run)) + 1, Len(run)))

\* a whole number printed in decimal
RECURSIVE IntegerDigits(_)
IntegerDigits(n) ==
    IF n < 10 THEN <<DigitChar(n)>>
    ELSE IntegerDigits(n \div 10) \o <<DigitChar(n % 10)>>

\* `${amount}`: a number printed in decimal
NumberToString(a) ==
    IntegerDigits(a.int) \o (IF a.frac # <<>> THEN <<".">> \o a.frac ELSE <<>>)

\* the first keyword of a trigger table one of whose trigger phrases the title
\* includes, "" if none
FirstTrigger(table, title) ==
    LET hits == {i \in 1..Len(table) :
                    \E t \in table[i].triggers : Includes(title, <<t>>)}
    IN  IF hits = {} THEN ""
        ELSE table[CHOOSE i \in hits : \A j \in hits : i <= j].key

NoEntry == [type |-> "none", record |-> <<>>]

NoAccounting ==
    [ok |-> FALSE, keyword |-> "", amount |-> Zero, description |-> <<>>]

\* restContent.replace(amountWithUnit, '').trim(): the rest without the amount
\* at [from, to] and without a unit right after it
Description(rest, from, to) ==
    Trim(SubSeq(rest, 1, from - 1)
         \o SubSeq(rest, (IF to < Len(rest) /\ rest[to + 1] \in Units
                          THEN to + 2 ELSE to + 1), Len(rest)))

\* the standard path of parseReminderTitle, given the regex match and the
\* amount run: [ok, keyword, amount, description]
StandardEntry(m, run) ==
    IF m.ok /\ run[1] # 0 /\ IsPositive(ParseFloat(SubSeq(m.rest, run[1], run[2])))
    THEN [ok |-> TRUE, keyword |-> m.keyword,
          amount |-> ParseFloat(SubSeq(m.rest, run[1], run[2])),
          description |-> Description(m.rest, run[1], run[2])]
    ELSE NoAccounting

StandardPath(m) == StandardEntry(m, AmountRun(m.rest))

\* the smart-keyword path, given the first keyword with a trigger in the title
SmartEntry(title, smart) ==
    IF smart # ""
    THEN [ok |-> TRUE, keyword |-> smart, amount |-> Zero, description |-> title]
    ELSE NoAccounting

\* the order of the paths, given the outcome of the standard path; before it,
\* two faults: the smart keywords tried first, and no test for a digit
ExpensePathsSmartFirst(title, std) ==
    IF ~HasDigit(title) THEN NoAccounting
    ELSE IF FirstTrigger(smartKeywords, title) # ""
    THEN SmartEntry(title, FirstTrigger(smartKeywords, title))
    ELSE IF Includes(title, <<expenseEmoji>>) /\ std.ok THEN std
    ELSE NoAccounting
ExpensePathsNoDigitTest(title, std) ==
    IF Includes(title, <<expenseEmoji>>) /\ std.ok THEN std
    ELSE SmartEntry(title, FirstTrigger(smartKeywords, title))
ExpensePaths(title, std) ==
    IF ~HasDigit(title) THEN NoAccounting
    ELSE IF Includes(title, <<expenseEmoji>>) /\ std.ok THEN std
    ELSE SmartEntry(title, FirstTrigger(smartKeywords, title))

\* parseReminderTitle: [ok, keyword, amount, description]
parseReminderTitle(title) == ExpensePaths(title, StandardPath(KeywordMatch(title)))

\* title.match(/《([^》]+)》/): the position of the leftmost opening bracket of
\* a span, 0 if none ("<" and ">" stand for the two brackets)
SpanOpen(title) ==
    LET opens == {i \in 1..Len(title) :
                    /\ title[i] = "<"
                    /\ \E j \in (i + 2)..Len(title) :
                          /\ title[j] = ">"
                          /\ \A k \in (i + 1)..(j - 1) : title[k] # ">"}
    IN  IF opens = {} THEN 0 ELSE CHOOSE x \in opens : \A y \in opens : x <= y

\* the closing bracket of the span opened at i
SpanClose(title, i) ==
    CHOOSE j \in (i + 2)..Len(title) :
        title[j] = ">" /\ \A k \in (i + 2)..(j - 1) : title[k] # ">"

VideoEntry(title, key, from, to) ==
    IF key = ""
    THEN [ok |-> FALSE, typeKey |-> "", title |-> <<>>, comment |-> <<>>]
    ELSE IF from # 0
    THEN [ok |-> TRUE, typeKey |-> key,
          title |-> SubSeq(title, from + 1, to - 1),
          comment |-> Trim(SubSeq(title, 1, from - 1)
                           \o SubSeq(title, to + 1, Len(title)))]
    ELSE [ok |-> TRUE, typeKey |-> key, title |-> <<>>, comment |-> title]

VideoSpan(title, key, from) ==
    VideoEntry(title, key, from, IF from = 0 THEN 0 ELSE SpanClose(title, from))

\* parseVideoReminder: [ok, typeKey, title, comment]
parseVideoReminder(title) ==
    VideoSpan(title, FirstTrigger(videoKeywords, title), SpanOpen(title))

HabitEntry(title, key) ==
    IF key = "" THEN [ok |-> FALSE, habitKey |-> "", description |-> <<>>]
    ELSE [ok |-> TRUE, habitKey |-> key, description |-> title]

\* parseHabitReminder: [ok, habitKey, description]
parseHabitReminder(title) == HabitEntry(title, FirstTrigger(habitKeywords, title))

\* the line syncAccountingToJournal renders for an entry
AccountingRecord(e) ==
    IF e.amount = Zero
    THEN <<"-", " ", expenseEmoji, e.keyword, " ">> \o e.description
    ELSE <<"-", " ", expenseEmoji, e.keyword, " ">> \o NumberToString(e.amount)
         \o (IF e.description # <<>> THEN <<" ">> \o e.description ELSE <<>>)

\* the line syncHabitsToJournal renders for an entry
HabitRecord(e) == <<"-", " ", habitPrefix, e.habitKey, " ">> \o e.description

\* the line syncVideosToJournal renders for an entry
VideoRecord(e) ==
    IF e.title # <<>>
    THEN <<"-", " ", "#", e.typeKey, " ", "<">> \o e.title \o <<">">>
         \o (IF e.comment # <<>> THEN <<" ">> \o e.comment ELSE <<>>)
    ELSE <<"-", " ", "#", e.typeKey, " ">> \o e.comment

\* The classification of one reminder title in syncRemindersToJournalInternal,
\* given what the three parsers return: expense first, then video, then habit;
\* the first match wins; before it, the fault of trying the habit triggers
\* before the video triggers.
ClassifiedHabitFirst(a, v, h) ==
    IF a.ok THEN [type |-> "accounting", record |-> AccountingRecord(a)]
    ELSE IF h.ok THEN [type |-> "habit", record |-> HabitRecord(h)]
    ELSE IF v.ok THEN [type |-> "video", record |-> VideoRecord(v)]
    ELSE NoEntry
Classified(a, v, h) ==
    IF a.ok THEN [type |-> "accounting", record |-> AccountingRecord(a)]
    ELSE IF v.ok THEN [type |-> "video", record |-> VideoRecord(v)]
    ELSE IF h.ok THEN [type |-> "habit", record |-> HabitRecord(h)]
    ELSE NoEntry

Classify(title) ==
    Classified(parseReminderTitle(title), parseVideoReminder(title),
               parseHabitReminder(title))

\* the reminder titles of the model
TitlePool ==
    { <<"$", "cy", " ", "5">>,                      \* expense, standard path
      <<"$", "cy", " ", "5", "0", " ", "lunch">>,   \* expense with a description
      <<"taxi", " ", "5">>,                         \* expense, smart keyword
      <<"jog", " ", "5", "km">>,                    \* habit
      <<"film", " ", "<", "Dune", ">">>,            \* video
      <<"milk">>, <<"call">>, <<"gym">> }           \* no entry

\* Classify over the titles of the model
Classification == [t \in TitlePool |-> Classify(t)]

\* formatLocalDate(new Date(instant)): the local calendar day of an instant
formatLocalDate(instant, offset) == (instant + offset) \div 24

\* the date stamped on a classified entry; before it, the fault of taking the
\* date part of the ISO timestamp, which is the UTC day
EntryDateUtc(r, instant, offset) ==
    IF r.due # NoDue THEN formatLocalDate(r.due, 0)
    ELSE formatLocalDate(instant, 0)
EntryDate(r, instant, offset) ==
    IF r.due # NoDue THEN formatLocalDate(r.due, offset)
    ELSE formatLocalDate(instant, offset)

(***************************************************************************)
(* The gateway read: getReminders.                                         *)
(***************************************************************************)
RetentionHours == 72

\* the JXA script's filter: a completed reminder is left out when it has no due
\* date or its due date is more than three days before now
Listed(r, instant) ==
    r.completed => (r.due # NoDue /\ ~(r.due < instant - RetentionHours))

\* getReminders() when the script succeeds
getReminders(list, instant) == SelectSeq(list, LAMBDA r : Listed(r, instant))

(***************************************************************************)
(* The Merge-Writer: syncAccountingToJournal / syncHabitsToJournal /       *)
(* syncVideosToJournal after the records are rendered.                     *)
(***************************************************************************)
NoFile == [exists |-> FALSE, lines |-> <<>>]

\* lines[lines.length - 1].trim() === '' || ... === '-'; before it, the fault
\* of taking only blank lines
IsBlankOrDashBlankOnly(line) == Trim(line) = <<>>
IsBlankOrDash(line) == Trim(line) = <<>> \/ Trim(line) = <<"-">>

\* while (lines.length > 0 && blank-or-dash(last)) lines.pop()
RECURSIVE PopTrailing(_)
PopTrailing(lines) ==
    IF lines # <<>> /\ IsBlankOrDash(lines[Len(lines)])
    THEN PopTrailing(SubSeq(lines, 1, Len(lines) - 1))
    ELSE lines

\* lines 1006-1012: the records the note does not hold yet; before it, the
\* fault of appending every record
NewRecordsAll(lines, records) == records
NewRecords(lines, records) ==
    SelectSeq(records, LAMBDA rec : ~ContentIncludes(lines, rec))

\* the note after a merge that raised no I/O error, given the new records
Written(file, records, new) ==
    IF file.exists
    THEN IF new = <<>> THEN file
         ELSE [exists |-> TRUE, lines |-> PopTrailing(file.lines) \o new]
    ELSE [exists |-> TRUE, lines |-> records]

MergedFile(file, records) == Written(file, records, NewRecords(file.lines, records))

(***************************************************************************)
(* Direction A: classification and bucketing of the fetched list.          *)
(***************************************************************************)
\* one reminder of the fetched list as a sequence of zero or one entries;
\* before it, the fault of filing a reminder without a match as a habit
EntryOfAny(r, c, instant, offset) ==
    <<[id |-> r.id, type |-> IF c.type = "none" THEN "habit" ELSE c.type,
       record |-> IF c.type = "none" THEN <<"-", " ">> \o r.title ELSE c.record,
       date |-> EntryDate(r, instant, offset)]>>
EntryOf(r, c, instant, offset) ==
    IF c.type = "none" THEN <<>>
    ELSE <<[id |-> r.id, type |-> c.type, record |-> c.record,
            date |-> EntryDate(r, instant, offset)]>>

\* the classified items of a fetched list, in list order
RECURSIVE Entries(_, _, _)
Entries(list, instant, offset) ==
    IF list = <<>> THEN <<>>
    ELSE EntryOf(list[1], Classification[list[1].title], instant, offset)
         \o Entries(Tail(list), instant, offset)

\* the dates of a sequence of entries in order of first appearance
RECURSIVE DatesOf(_)
DatesOf(es) ==
    IF es = <<>> THEN <<>>
    ELSE <<es[1].date>> \o DatesOf(SelectSeq(Tail(es), LAMBDA e : e.date # es[1].date))

BucketsByDate(mine, type, ds) ==
    [i \in 1..Len(ds) |->
        [type |-> type, date |-> ds[i],
         items |-> SelectSeq(mine, LAMBDA e : e.date = ds[i])]]

OfType(es, type) == SelectSeq(es, LAMBDA e : e.type = type)

\* entriesByDate of one entry type, as the sequence Object.entries yields
BucketsOfType(es, type) == BucketsByDate(OfType(es, type), type, DatesOf(OfType(es, type)))

\* the buckets of a pass in the order they are merged
Buckets(es) ==
    BucketsOfType(es, "accounting") \o BucketsOfType(es, "habit")
        \o BucketsOfType(es, "video")

RecordsOf(bucket) == [i \in 1..Len(bucket.items) |-> bucket.items[i].record]

\* the native list after r.delete() on the reminder with this id
Deleted(list, id) == SelectSeq(list, LAMBDA r : r.id # id)

(***************************************************************************)
(* Direction A as one step: what a pass does to the two stores when every  *)
(* gateway and vault call of the pass succeeds.                            *)
(***************************************************************************)
RECURSIVE DeleteAll(_, _)
DeleteAll(list, items) ==
    IF items = <<>> THEN list
    ELSE DeleteAll(Deleted(list, items[1].id), Tail(items))

RECURSIVE MergeAll(_, _)
MergeAll(jour, buckets) ==
    IF buckets = <<>> THEN jour
    ELSE MergeAll([jour EXCEPT ![buckets[1].date] =
                       MergedFile(jour[buckets[1].date], RecordsOf(buckets[1]))],
                  Tail(buckets))

PassResult(list, jour, es) ==
    [reminders |-> DeleteAll(list, es), journal |-> MergeAll(jour, Buckets(es))]

RunDirectionA(list, jour, instant, offset) ==
    PassResult(list, jour, Entries(getReminders(list, instant), instant, offset))

(***************************************************************************)
(* The serialization gate: withSyncLock and its callers.                   *)
(***************************************************************************)
Kinds == {"syncRemindersToJournal", "syncJournalsToReminders",
          "performFullSync", "syncFileWithReminders"}

\* the steps of the function each caller hands to withSyncLock; before it, two
\* faults: performFullSync without its wait, and syncRemindersToJournal running
\* both directions
PhasesNoDelay(kind) ==
    CASE kind = "syncRemindersToJournal" -> <<"A">>
      [] kind = "syncJournalsToReminders" -> <<"B">>
      [] kind = "performFullSync" -> <<"A", "B">>
      [] kind = "syncFileWithReminders" -> <<"A", "F">>
PhasesSyncRunsBoth(kind) ==
    CASE kind = "syncRemindersToJournal" -> <<"A", "delay", "B">>
      [] kind = "syncJournalsToReminders" -> <<"B">>
      [] kind = "performFullSync" -> <<"A", "delay", "B">>
      [] kind = "syncFileWithReminders" -> <<"A", "F">>
Phases(kind) ==
    CASE kind = "syncRemindersToJournal" -> <<"A">>
      [] kind = "syncJournalsToReminders" -> <<"B">>
      [] kind = "performFullSync" -> <<"A", "delay", "B">>
      [] kind = "syncFileWithReminders" -> <<"A", "F">>

\* line 102: if (skipIfBusy && this.syncLock); before it, two faulty guards
\* (skip whenever the lock is held; never skip)
SkipCallAlways(skipIfBusy, lock) == lock
SkipCallNever(skipIfBusy, lock) == FALSE
SkipCall(skipIfBusy, lock) == skipIfBusy /\ lock

\* line 121: this.syncQueue = task.then(() => {}, () => {}) -- the promise the
\* next call chains on; before it, the fault of leaving syncQueue as it was
NextQueueStale(queue, id) == queue
NextQueue(queue, id) == id

\* the state of the promise task.then(() => {}, () => {}) given the task's state:
\* both handlers return normally, so a rejection is swallowed; before it, the
\* fault of task.then(() => {}) with no rejection handler
ChainedPassRejection(status) ==
    CASE status = "resolved" -> "fulfilled"
      [] status = "rejected" -> "rejected"
      [] OTHER -> "pending"
Chained(status) ==
    IF status \in {"resolved", "rejected"} THEN "fulfilled" ELSE "pending"

\* the state of the promise a call with this waitsOn chained its body on;
\* before it, the fault of waiting for the lock instead of for the predecessor
QueueStatePollsLock(q) == IF syncLock THEN "pending" ELSE "fulfilled"
QueueState(q) == IF q = 0 THEN "fulfilled" ELSE Chained(calls[q].status)

\* lines 112-117: try { return await fn() } finally { this.syncLock = false }
LockAfter(lock, outcome) == FALSE

\* lines 481 and 498: if (result === null && !silent) new Notice(...)
BusyNotice(result, silent) == result = "null" /\ ~silent

\* a queued call whose predecessor in the chain has settled: its callback is
\* a pending microtask
Startable(i) == calls[i].status = "queued" /\ QueueState(calls[i].waitsOn) # "pending"

\* a running body that has returned or thrown: the finally block and the
\* settling of its promise are pending microtasks
Settling(i) == calls[i].status = "running" /\ calls[i].phase \in {"returned", "threw"}

\* no microtask is pending: the event loop takes the next timer, command or
\* I/O completion only then; before it, the fault of letting a timer or a
\* command in between two microtasks
IdleAlways == TRUE
Idle == \A i \in 1..Len(calls) : ~Startable(i) /\ ~Settling(i)

\* the preview commands a behaviour has run
Previews == Cardinality({k \in 1..Len(log) : log[k].op = "preview"})

\* withSyncLock(name, fn, skipIfBusy), up to its return
withSyncLock(kind, silent, skipIfBusy) ==
    /\ Len(calls) + Previews < MaxCalls
    /\ IF SkipCall(skipIfBusy, syncLock)
       THEN /\ calls' = Append(calls,
                   [kind |-> kind, silent |-> silent, skipIfBusy |-> skipIfBusy,
                    busy |-> syncLock, waitsOn |-> 0, status |-> "skipped",
                    phase |-> "none", result |-> "null", runs |-> 0,
                    ran |-> <<>>, notice |-> BusyNotice("null", silent)])
            /\ UNCHANGED syncQueue
       ELSE /\ calls' = Append(calls,
                   [kind |-> kind, silent |-> silent, skipIfBusy |-> skipIfBusy,
                    busy |-> syncLock, waitsOn |-> syncQueue, status |-> "queued",
                    phase |-> "none", result |-> "pending", runs |-> 0,
                    ran |-> <<>>, notice |-> FALSE])
            /\ syncQueue' = NextQueue(syncQueue, Len(calls) + 1)

Files == {"note.md"}

\* the locals of a Direction A pass before the first pass has started
idlePassA == [pc |-> "idle", n |-> 0, list |-> <<>>, today |-> 0,
              buckets |-> <<>>, bi |-> 0, di |-> 0]

\* the locals of a Direction B pass before the first pass has started
idlePassB == [pc |-> "idle", n |-> 0, variant |-> "none", files |-> <<>>,
              file |-> 0, content |-> <<>>, li |-> 0, hasTask |-> FALSE]

nonGate == <<reminders, journal, now, tz, passA, passB, log>>

\* command "sync-reminders-to-journal": syncRemindersToJournal()
ManualSyncReminders ==
    /\ Idle
    /\ withSyncLock("syncRemindersToJournal", FALSE, FALSE)
    /\ UNCHANGED <<syncLock, globalSyncing, syncDebounceTimers, syncIntervalId,
                   startupPending, reading, startOrder>>
    /\ UNCHANGED nonGate

\* command "sync-journals-to-reminders": syncJournalsToReminders()
ManualSyncJournals ==
    /\ Idle
    /\ withSyncLock("syncJournalsToReminders", FALSE, FALSE)
    /\ UNCHANGED <<syncLock, globalSyncing, syncDebounceTimers, syncIntervalId,
                   startupPending, reading, startOrder>>
    /\ UNCHANGED nonGate

\* previewSyncReminders() given what getReminders returned: what it leaves in
\* the two stores and the entries its notice lists (parseReminderTitle only:
\* the expense entries, each with its date); before it, the fault of running
\* the sync instead
previewRunsSync(store, jour, fetched, instant, offset) ==
    [reminders |-> RunDirectionA(store, jour, instant, offset).reminders,
     journal |-> RunDirectionA(store, jour, instant, offset).journal,
     message |-> OfType(Entries(fetched, instant, offset), "accounting")]
previewSyncReminders(store, jour, fetched, instant, offset) ==
    [reminders |-> store, journal |-> jour,
     message |-> OfType(Entries(fetched, instant, offset), "accounting")]

PreviewStep(ok, out) ==
    /\ reminders' = out.reminders
    /\ journal' = out.journal
    /\ log' = Append(log, [op |-> "preview", ok |-> ok, message |-> out.message])

\* command "preview-sync-reminders": previewSyncReminders(), which takes no
\* lock; the step is the settling of its getReminders call
PreviewCommand(ok) ==
    /\ Idle
    /\ Len(calls) + Previews < MaxCalls
    /\ PreviewStep(ok, previewSyncReminders(
                           reminders, journal,
                           IF ok THEN getReminders(reminders, now) ELSE <<>>,
                           now, tz))
    /\ UNCHANGED gateVars
    /\ UNCHANGED <<now, tz, passA, passB>>

\* the auto-sync interval fires: syncRemindersToJournal(true)
AutoSyncTick ==
    /\ Idle
    /\ syncIntervalId
    /\ withSyncLock("syncRemindersToJournal", TRUE, TRUE)
    /\ UNCHANGED <<syncLock, globalSyncing, syncDebounceTimers, syncIntervalId,
                   startupPending, reading, startOrder>>
    /\ UNCHANGED nonGate

\* the onload timer fires: globalSyncing = true; performFullSync(true)
StartupSync ==
    /\ Idle
    /\ startupPending
    /\ startupPending' = FALSE
    /\ globalSyncing' = TRUE
    /\ withSyncLock("performFullSync", TRUE, FALSE)
    /\ UNCHANGED <<syncLock, syncDebounceTimers, syncIntervalId, reading, startOrder>>
    /\ UNCHANGED nonGate

\* 'file-open' or 'active-leaf-change': debounceSyncFile(file), when it does
\* not return early on globalSyncing
FileFocus(f) ==
    /\ Idle
    /\ ~globalSyncing
    /\ syncDebounceTimers' = syncDebounceTimers \cup {f}
    /\ UNCHANGED <<syncLock, syncQueue, globalSyncing, syncIntervalId,
                   startupPending, reading, calls, startOrder>>
    /\ UNCHANGED nonGate

\* the debounce timer of a path fires: the callback runs up to await vault.read
DebounceFire(f) ==
    /\ Idle
    /\ f \in syncDebounceTimers
    /\ f \notin reading
    /\ syncDebounceTimers' = syncDebounceTimers \ {f}
    /\ reading' = reading \cup {f}
    /\ UNCHANGED <<syncLock, syncQueue, globalSyncing, syncIntervalId,
                   startupPending, calls, startOrder>>
    /\ UNCHANGED nonGate

\* vault.read settles and the text holds a date stamp: syncFileWithReminders
FileReadSync(f) ==
    /\ Idle
    /\ f \in reading
    /\ reading' = reading \ {f}
    /\ withSyncLock("syncFileWithReminders", TRUE, TRUE)
    /\ UNCHANGED <<syncLock, globalSyncing, syncDebounceTimers, syncIntervalId,
                   startupPending, startOrder>>
    /\ UNCHANGED nonGate

\* vault.read settles and the text holds no date stamp, or vault.read fails
FileReadSkip(f) ==
    /\ Idle
    /\ f \in reading
    /\ reading' = reading \ {f}
    /\ UNCHANGED <<syncLock, syncQueue, globalSyncing, syncDebounceTimers,
                   syncIntervalId, startupPending, calls, startOrder>>
    /\ UNCHANGED nonGate

\* the callback withSyncLock chained on syncQueue runs: the lock is taken and
\* fn is called; had the chained promise rejected, the callback would be
\* skipped and the call's promise rejected with it
Start(i) ==
    /\ Startable(i)
    /\ IF QueueState(calls[i].waitsOn) = "fulfilled"
       THEN /\ syncLock' = TRUE
            /\ calls' = [calls EXCEPT ![i].status = "running",
                                      ![i].phase = Phases(calls[i].kind)[1],
                                      ![i].runs = @ + 1]
            /\ startOrder' = Append(startOrder, i)
            /\ UNCHANGED globalSyncing
       ELSE /\ calls' = [calls EXCEPT ![i].status = "rejected",
                                      ![i].result = "rejected"]
            /\ globalSyncing' = IF calls[i].kind = "performFullSync"
                                THEN FALSE ELSE globalSyncing
            /\ UNCHANGED <<syncLock, startOrder>>
    /\ UNCHANGED <<syncQueue, syncDebounceTimers, syncIntervalId, startupPending,
                   reading>>
    /\ UNCHANGED nonGate

\* the phase after phase number k of a kind
After(kind, k) == IF k < Len(Phases(kind)) THEN Phases(kind)[k + 1] ELSE "returned"

PhaseIndex(kind, ph) == CHOOSE k \in 1..Len(Phases(kind)) : Phases(kind)[k] = ph

\* a step of fn has settled: fn goes on to its next step; ran keeps the steps
\* that settled, in order
Advance(i) ==
    calls' = [calls EXCEPT ![i].phase =
                 After(calls[i].kind, PhaseIndex(calls[i].kind, calls[i].phase)),
                           ![i].ran = Append(@, calls[i].phase)]

\* syncRemindersToJournalInternal runs inside a body
BodyDirectionA(i) ==
    /\ Idle
    /\ calls[i].status = "running" /\ calls[i].phase = "A"
    /\ \E out \in {RunDirectionA(reminders, journal, now, tz),
                   [reminders |-> reminders, journal |-> journal]} :
          /\ reminders' = out.reminders
          /\ journal' = out.journal
    /\ Advance(i)
    /\ UNCHANGED <<syncLock, syncQueue, globalSyncing, syncDebounceTimers,
                   syncIntervalId, startupPending, reading, startOrder>>
    /\ UNCHANGED <<now, tz, passA, passB, log>>

\* performFullSync's 500 ms wait between the two directions
BodyDelay(i) ==
    /\ Idle
    /\ calls[i].status = "running" /\ calls[i].phase = "delay"
    /\ Advance(i)
    /\ UNCHANGED <<syncLock, syncQueue, globalSyncing, syncDebounceTimers,
                   syncIntervalId, startupPending, reading, startOrder>>
    /\ UNCHANGED nonGate

\* syncJournalsToRemindersInternal or syncCurrentFileToRemindersInternal runs
\* inside a body and returns (the notes of this specification hold no task
\* line, so it finds nothing to create or complete)
BodyDirectionB(i) ==
    /\ Idle
    /\ calls[i].status = "running" /\ calls[i].phase \in {"B", "F"}
    /\ Advance(i)
    /\ UNCHANGED <<syncLock, syncQueue, globalSyncing, syncDebounceTimers,
                   syncIntervalId, startupPending, reading, startOrder>>
    /\ UNCHANGED nonGate

\* the same, but a vault call of it rejects (vault.read, vault.modify)
BodyThrows(i) ==
    /\ Idle
    /\ calls[i].status = "running" /\ calls[i].phase \in {"B", "F"}
    /\ calls' = [calls EXCEPT ![i].phase = "threw"]
    /\ UNCHANGED <<syncLock, syncQueue, globalSyncing, syncDebounceTimers,
                   syncIntervalId, startupPending, reading, startOrder>>
    /\ UNCHANGED nonGate

\* the finally block of withSyncLock, the settling of the call's promise and
\* the continuation of its caller
Finish(i) ==
    /\ Settling(i)
    /\ syncLock' = LockAfter(syncLock, calls[i].phase)
    /\ LET result == IF calls[i].phase = "returned" THEN "undefined" ELSE "rejected"
       IN  calls' = [calls EXCEPT
                        ![i].status = IF calls[i].phase = "returned"
                                      THEN "resolved" ELSE "rejected",
                        ![i].result = result,
                        ![i].notice = /\ calls[i].kind \in {"syncRemindersToJournal",
                                                            "syncJournalsToReminders"}
                                      /\ BusyNotice(result, calls[i].silent)]
    /\ globalSyncing' = IF calls[i].kind = "performFullSync" THEN FALSE
                        ELSE globalSyncing
    /\ UNCHANGED <<syncQueue, syncDebounceTimers, syncIntervalId, startupPending,
                   reading, startOrder>>
    /\ UNCHANGED nonGate

\* the journal notes of the model: journals/<day>.md
Days == 0..6

Init ==
    /\ syncLock = FALSE
    /\ syncQueue = 0
    /\ globalSyncing = FALSE
    /\ syncDebounceTimers = {}
    /\ syncIntervalId = TRUE      \* config.autoSync is set: onload called startAutoSync
    /\ startupPending = TRUE
    /\ reading = {}
    /\ calls = <<>>
    /\ startOrder = <<>>
    /\ reminders = <<[id |-> 1, title |-> <<"$", "cy", " ", "5">>, due |-> NoDue,
                      completed |-> FALSE]>>
    /\ journal = [d \in Days |-> NoFile]
    /\ now = 36
    /\ tz = 0
    /\ passA = idlePassA
    /\ passB = idlePassB
    /\ log = <<>>

Next ==
    \/ ManualSyncReminders
    \/ ManualSyncJournals
    \/ \E ok \in BOOLEAN : PreviewCommand(ok)
    \/ AutoSyncTick
    \/ StartupSync
    \/ \E f \in Files : FileFocus(f)
    \/ \E f \in Files : DebounceFire(f)
    \/ \E f \in Files : FileReadSync(f)
    \/ \E f \in Files : FileReadSkip(f)
    \/ \E i \in 1..Len(calls) : Start(i)
    \/ \E i \in 1..Len(calls) : BodyDirectionA(i)
    \/ \E i \in 1..Len(calls) : BodyDelay(i)
    \/ \E i \in 1..Len(calls) : BodyDirectionB(i)
    \/ \E i \in 1..Len(calls) : BodyThrows(i)
    \/ \E i \in 1..Len(calls) : Finish(i)

Spec == Init /\ [][Next]_vars

\* every step of a body is an external-process call with a 30 s timeout or a
\* vault call: it settles; microtasks run as soon as they are queued
BodyStep ==
    \E i \in 1..Len(calls) :
        BodyDirectionA(i) \/ BodyDelay(i) \/ BodyDirectionB(i) \/ BodyThrows(i)

FairSpec ==
    /\ Spec
    /\ WF_vars(\E i \in 1..Len(calls) : Start(i))
    /\ WF_vars(\E i \in 1..Len(calls) : Finish(i))
    /\ WF_vars(BodyStep)

(***************************************************************************)
(* Properties of the serialization gate.                                   *)
(***************************************************************************)
Running == {i \in 1..Len(calls) : calls[i].status = "running"}
Settled(i) == calls[i].status \in {"resolved", "rejected"}
Admitted(i) == calls[i].status # "skipped"
Manual(i) == ~calls[i].silent

\* C1: at most one function submitted through withSyncLock executes its body
\* at any time, and a body that has started was preceded by the settling of
\* every call admitted before it.
C1_MutualExclusion ==
    /\ Cardinality(Running) <= 1
    /\ \A i, j \in 1..Len(calls) :
          (i < j /\ Admitted(i) /\ calls[j].runs > 0) => Settled(i)

\* two manual syncs issued back to back: the second was submitted while the
\* first held the lock, and runs after the first has settled
C1_Witness ==
    /\ Len(calls) >= 2
    /\ Manual(1) /\ Manual(2) /\ calls[2].busy
    /\ Settled(1) /\ calls[2].status = "running"

\* C2: a manual call that was submitted while the lock was held, and so had to
\* wait, has shown the "sync already in progress" notice by the time it has
\* settled.
C2_BusyNoticeShown ==
    \A i \in 1..Len(calls) :
        (Manual(i) /\ calls[i].busy /\ Settled(i)) => calls[i].notice

\* C3: the admitted calls start in exactly the order of their submission:
\* startOrder is increasing and leaves out no admitted call submitted before
\* one that has started.
C3_SubmissionOrder ==
    /\ \A k \in 1..(Len(startOrder) - 1) : startOrder[k] < startOrder[k + 1]
    /\ \A i, j \in 1..Len(calls) :
          (i < j /\ Admitted(i) /\ calls[j].runs > 0) => calls[i].runs > 0

\* three calls of three different triggers have started, after one that threw
C3_Witness ==
    /\ Len(startOrder) = 3
    /\ \E i \in 1..2 : calls[i].status = "rejected"
    /\ Cardinality({calls[i].kind : i \in 1..3}) = 3

\* C4: a call with skipIfBusy made while the lock is held returns null at once:
\* it is not queued, its fn is never invoked, and syncQueue, syncLock, the
\* journal and the reminders list are as they were.
C4_SkipLeavesNoTrace ==
    /\ [][(/\ Len(calls') = Len(calls) + 1
           /\ calls'[Len(calls')].skipIfBusy
           /\ syncLock)
          => (/\ calls'[Len(calls')].status = "skipped"
              /\ calls'[Len(calls')].result = "null"
              /\ UNCHANGED <<syncQueue, syncLock, journal, reminders>>)]_vars
    /\ [][\A i \in 1..Len(calls) :
             calls[i].status = "skipped" => calls'[i] = calls[i]]_vars
    /\ [](\A i \in 1..Len(calls) : calls[i].status = "skipped" => calls[i].runs = 0)

\* a file-focus sync was skipped behind a running body, which has since settled
C4_Witness ==
    \E i, j \in 1..Len(calls) :
        /\ i < j
        /\ Settled(i)
        /\ calls[j].status = "skipped" /\ calls[j].kind = "syncFileWithReminders"
        /\ calls[j].result = "null"

\* C5: a manual call is never skipped; its function is queued and, every body
\* ahead of it settling, runs exactly once.
C5_ManualAlwaysRuns ==
    /\ [](\A i \in 1..Len(calls) :
             Manual(i) => (calls[i].status # "skipped" /\ calls[i].runs <= 1))
    /\ \A i \in 1..MaxCalls :
          (i <= Len(calls) /\ Manual(i)) ~> (i <= Len(calls) /\ calls[i].runs = 1)

\* a manual call submitted while the lock was held has run
C5_Witness ==
    \E i \in 1..Len(calls) : Manual(i) /\ calls[i].busy /\ calls[i].runs = 1

\* C6: when the function of a call throws, the lock is released and every call
\* queued behind it still runs; only the call whose own function threw is
\* rejected.
C6_FailureDoesNotStall ==
    /\ []((Running = {}) => ~syncLock)
    /\ [](\A i \in 1..Len(calls) :
             calls[i].result = "rejected" => calls[i].phase = "threw")
    /\ \A j \in 2..MaxCalls :
          (/\ j <= Len(calls)
           /\ calls[j].status = "queued"
           /\ \E i \in 1..(j - 1) : calls[i].status = "rejected")
          ~> (j <= Len(calls) /\ calls[j].runs = 1)

\* a call was rejected, the lock is free and a call queued behind it resolved
C6_Witness ==
    /\ ~syncLock
    /\ \E i, j \in 1..Len(calls) :
          /\ i < j
          /\ calls[i].status = "rejected" /\ calls[j].waitsOn = i
          /\ calls[j].status = "resolved"

\* the call has settled this step of its fn
Ran(i, ph) == \E k \in 1..Len(calls[i].ran) : calls[i].ran[k] = ph

\* a step of the preview command
PreviewDone == Len(log') = Len(log) + 1 /\ log'[Len(log')].op = "preview"

\* C18: in a full pass Direction A and then the wait have settled before
\* Direction B starts, the stores are written by Direction A only while the
\* pass is in its Direction A step, and the lock is held, by this pass alone,
\* from the start of the pass to its end.
C18_DirectionABeforeB ==
    /\ [](\A i \in 1..Len(calls) :
             calls[i].kind = "performFullSync" =>
                /\ calls[i].phase = "delay" => calls[i].ran = <<"A">>
                /\ calls[i].phase = "B" => calls[i].ran = <<"A", "delay">>
                /\ calls[i].status = "resolved" => calls[i].ran = <<"A", "delay", "B">>
                /\ calls[i].status = "running" => (syncLock /\ Running = {i}))
    /\ [][\A i \in 1..Len(calls) :
             (/\ calls[i].kind = "performFullSync"
              /\ calls[i].status = "running"
              /\ calls[i].phase # "A")
             => UNCHANGED <<reminders, journal>>]_vars

\* the startup pass has run both directions: Direction A filed the reminder and
\* deleted it, and Direction B ran after the wait
C18_Witness ==
    \E i \in 1..Len(calls) :
        /\ calls[i].kind = "performFullSync" /\ calls[i].status = "resolved"
        /\ calls[i].ran = <<"A", "delay", "B">>
        /\ reminders = <<>>
        /\ \E d \in Days : journal[d].exists

\* C19 as stated: a sync command that has run to its end has executed Direction
\* A and Direction B.
C19_SyncCommandRunsBoth ==
    \A i \in 1..Len(calls) :
        (/\ calls[i].kind = "syncRemindersToJournal" /\ Manual(i)
         /\ calls[i].status = "resolved")
        => (Ran(i, "A") /\ Ran(i, "B"))

\* C19, amended: the sync command runs Direction A alone, the
\* journal-to-reminders command Direction B alone, the preview command
\* neither; no command runs both directions.
C19_SyncCommandRunsA ==
    /\ [](\A i \in 1..Len(calls) :
             Manual(i) =>
                /\ calls[i].kind \in {"syncRemindersToJournal", "syncJournalsToReminders"}
                /\ ~(Ran(i, "A") /\ Ran(i, "B"))
                /\ calls[i].phase \in
                      (IF calls[i].kind = "syncRemindersToJournal"
                       THEN {"none", "A", "returned"}
                       ELSE {"none", "B", "returned", "threw"})
                /\ calls[i].status = "resolved" =>
                      calls[i].ran = IF calls[i].kind = "syncRemindersToJournal"
                                     THEN <<"A">> ELSE <<"B">>)
    /\ [][PreviewDone => UNCHANGED calls]_vars

\* each of the three commands has been invoked and has run to its end
C19_Witness ==
    /\ \E k \in 1..Len(log) : log[k].op = "preview"
    /\ \E i, j \in 1..Len(calls) :
          /\ Manual(i) /\ calls[i].kind = "syncRemindersToJournal"
          /\ calls[i].status = "resolved" /\ calls[i].ran = <<"A">>
          /\ Manual(j) /\ calls[j].kind = "syncJournalsToReminders"
          /\ calls[j].status = "resolved" /\ calls[j].ran = <<"B">>

\* C20: the preview command creates or modifies no journal note, creates,
\* completes or deletes no reminder, and queues no sync.
C20_PreviewWritesNothing ==
    [][PreviewDone => UNCHANGED <<reminders, journal, syncQueue, syncLock>>]_vars

\* the preview listed one expense entry; the reminder is still in the native
\* list and no journal note exists
C20_Witness ==
    /\ \E k \in 1..Len(log) : log[k].op = "preview" /\ Len(log[k].message) = 1
    /\ Len(reminders) = 1
    /\ \A d \in Days : ~journal[d].exists

(***************************************************************************)
(* Direction A step by step: syncRemindersToJournalInternal with every     *)
(* gateway and vault call an outcome of its own.  Passes run one at a time *)
(* (the gate serializes them); the pass reads the clock only when it       *)
(* starts, so the clock moves between passes.                              *)
(***************************************************************************)
MaxPasses == 2
MaxReminders == 3
MaxTicks == 2
TickHours == 12
StartInstant == 84

TimeZones == {-5, 0, 8}

\* the reminders a native list of the model is drawn from
ReminderPool ==
    << [id |-> 1, title |-> <<"$", "cy", " ", "5">>, due |-> NoDue,
        completed |-> FALSE],
       [id |-> 2, title |-> <<"$", "cy", " ", "5", "0", " ", "lunch">>,
        due |-> NoDue, completed |-> FALSE],
       [id |-> 3, title |-> <<"jog", " ", "5", "km">>, due |-> 70,
        completed |-> FALSE],
       [id |-> 4, title |-> <<"film", " ", "<", "Dune", ">">>, due |-> 24,
        completed |-> TRUE],
       [id |-> 5, title |-> <<"milk">>, due |-> NoDue, completed |-> FALSE],
       [id |-> 6, title |-> <<"taxi", " ", "5">>, due |-> 70,
        completed |-> FALSE] >>

\* the reminders of the pool at a set of positions, in pool order
RECURSIVE Pick(_, _)
Pick(pool, chosen) ==
    IF pool = <<>> THEN <<>>
    ELSE (IF pool[1].id \in chosen THEN <<pool[1]>> ELSE <<>>)
         \o Pick(Tail(pool), chosen)

\* the native lists a behaviour starts from
NativeLists ==
    {Pick(ReminderPool, chosen) :
        chosen \in {c \in SUBSET (1..Len(ReminderPool)) :
                       Cardinality(c) >= 1 /\ Cardinality(c) <= MaxReminders}}

\* what a journal note holds before the first pass
NotePool ==
    { NoFile,
      [exists |-> TRUE, lines |-> << <<"notes">>, <<"-", " ">>, <<>> >>],
      [exists |-> TRUE,
       lines |-> << <<"-", " ", "$", "cy", " ", "5", "0", " ", "lunch">> >>] }

\* an entry of the history of gateway and vault calls
Event(op, pass, bucket, id, ok, wrote) ==
    [op |-> op, pass |-> pass, bucket |-> bucket, id |-> id, ok |-> ok,
     wrote |-> wrote, list |-> <<>>, buckets |-> <<>>, instant |-> 0, today |-> 0]

\* the entry of a getReminders call and the classification that follows it
FetchEvent(pass, ok, list, bs, instant, today) ==
    [op |-> "fetch", pass |-> pass, bucket |-> 0, id |-> 0, ok |-> ok,
     wrote |-> <<>>, list |-> list, buckets |-> bs, instant |-> instant,
     today |-> today]

\* the pass after its loop over one bucket: the next bucket, or the end
NextBucket(p) ==
    IF p.bi < Len(p.buckets)
    THEN [p EXCEPT !.pc = "merge", !.bi = @ + 1, !.di = 0]
    ELSE [p EXCEPT !.pc = "done", !.di = 0]

\* lines 578-590: const success = await this.sync...ToJournal(date, entries);
\* if (success) { for (const item of items) await this.deleteReminder(...) };
\* before it, two faults: deleting whatever the merge returned, and ending the
\* pass at the first failed merge
AfterMergeIgnoresResult(p, success) == [p EXCEPT !.pc = "delete", !.di = 1]
AfterMergeAborts(p, success) ==
    IF success THEN [p EXCEPT !.pc = "delete", !.di = 1]
    ELSE [p EXCEPT !.pc = "done", !.di = 0]
AfterMerge(p, success) ==
    IF success THEN [p EXCEPT !.pc = "delete", !.di = 1] ELSE NextBucket(p)

\* the pass after getReminders returned list and its items were classified into
\* the buckets bs: both early returns (empty list, no entry) end the pass
Classifying(n, list, bs, today) ==
    [pc |-> IF bs = <<>> THEN "done" ELSE "merge", n |-> n, list |-> list,
     today |-> today, buckets |-> bs, bi |-> IF bs = <<>> THEN 0 ELSE 1, di |-> 0]

FetchStep(n, ok, list, bs) ==
    /\ passA' = Classifying(n, list, bs, formatLocalDate(now, tz))
    /\ log' = Append(log, FetchEvent(n, ok, list, bs, now,
                                     formatLocalDate(now, tz)))

FetchList(n, ok, list) == FetchStep(n, ok, list, Buckets(Entries(list, now, tz)))

\* a pass starts: getReminders() returns the listed reminders, or [] when the
\* external process fails or its output does not parse; then the list is
\* classified and bucketed
FetchA(ok) ==
    /\ passA.pc \in {"idle", "done"}
    /\ passA.n < MaxPasses
    /\ FetchList(passA.n + 1, ok,
                 IF ok THEN getReminders(reminders, now) ELSE <<>>)
    /\ UNCHANGED <<reminders, journal, now, tz, passB>>
    /\ UNCHANGED gateVars

\* the records a merge that raised no error wrote to the note
WroteTo(file, records, new) == IF file.exists THEN new ELSE records

MergeStep(b, file, records, threw) ==
    /\ journal' = IF threw THEN journal
                  ELSE [journal EXCEPT ![b.date] = MergedFile(file, records)]
    /\ log' = Append(log, Event("merge", passA.n, passA.bi, 0, ~threw,
                                IF threw THEN <<>>
                                ELSE WroteTo(file, records,
                                             NewRecords(file.lines, records))))
    /\ passA' = AfterMerge(passA, ~threw)

MergeBucket(b, threw) == MergeStep(b, journal[b.date], RecordsOf(b), threw)

\* sync{Accounting,Habits,Videos}ToJournal(date, entries) for the current
\* bucket: a vault call that throws is caught, nothing is written and the
\* merge returns false
MergeA(threw) ==
    /\ passA.pc = "merge"
    /\ MergeBucket(passA.buckets[passA.bi], threw)
    /\ UNCHANGED <<reminders, now, tz, passB>>
    /\ UNCHANGED gateVars

DeleteStep(item, last, ok) ==
    /\ reminders' = IF ok THEN Deleted(reminders, item.id) ELSE reminders
    /\ log' = Append(log, Event("delete", passA.n, passA.bi, item.id, ok, <<>>))
    /\ passA' = IF last THEN NextBucket(passA) ELSE [passA EXCEPT !.di = @ + 1]

\* deleteReminder(item.reminder.id) for the next item of a merged bucket: the
\* script deletes the reminder, or the external process fails and false is
\* returned
DeleteA(ok) ==
    /\ passA.pc = "delete"
    /\ DeleteStep(passA.buckets[passA.bi].items[passA.di],
                  passA.di = Len(passA.buckets[passA.bi].items), ok)
    /\ UNCHANGED <<journal, now, tz, passB>>
    /\ UNCHANGED gateVars

\* time passes between two passes
TickA ==
    /\ passA.pc \in {"idle", "done"}
    /\ now + TickHours <= StartInstant + MaxTicks * TickHours
    /\ now' = now + TickHours
    /\ UNCHANGED <<reminders, journal, tz, passA, passB, log>>
    /\ UNCHANGED gateVars

InitA ==
    /\ syncLock = FALSE
    /\ syncQueue = 0
    /\ globalSyncing = FALSE
    /\ syncDebounceTimers = {}
    /\ syncIntervalId = FALSE
    /\ startupPending = FALSE
    /\ reading = {}
    /\ calls = <<>>
    /\ startOrder = <<>>
    /\ reminders \in NativeLists
    /\ \E note \in NotePool : journal = [d \in Days |-> note]
    /\ now = StartInstant
    /\ tz \in TimeZones
    /\ passA = idlePassA
    /\ passB = idlePassB
    /\ log = <<>>

NextA ==
    \/ \E ok \in BOOLEAN : FetchA(ok)
    \/ \E threw \in BOOLEAN : MergeA(threw)
    \/ \E ok \in BOOLEAN : DeleteA(ok)
    \/ TickA

SpecA == InitA /\ [][NextA]_vars

(***************************************************************************)
(* Properties of Direction A.                                              *)
(***************************************************************************)
\* the positions of the history that belong to a pass
EventsOf(op, pass) ==
    {k \in 1..Len(log) : log[k].op = op /\ log[k].pass = pass}

\* the entry of a pass's fetch
FetchOf(pass) == log[CHOOSE k \in EventsOf("fetch", pass) : TRUE]

\* pass number n has started / has returned
PassStarted(n) == n >= 1 /\ n <= passA.n
PassOver(n) == PassStarted(n) /\ (n < passA.n \/ passA.pc = "done")

\* the ids of the reminders of a bucket
IdsOf(bucket) == {bucket.items[i].id : i \in 1..Len(bucket.items)}

\* bucket b of pass n was merged with this outcome
MergedWith(n, b, ok) ==
    \E k \in EventsOf("merge", n) : log[k].bucket = b /\ log[k].ok = ok

\* deleteReminder was called for this id in pass n
DeleteCalled(n, id) == \E k \in EventsOf("delete", n) : log[k].id = id

\* the entry the current pass derived from the reminder with this id
CurrentEntries(id) ==
    {e \in UNION {{passA.buckets[b].items[i] : i \in 1..Len(passA.buckets[b].items)} :
                     b \in 1..Len(passA.buckets)} : e.id = id}

\* C7: Direction A calls deleteReminder for a reminder only after the merge of
\* the reminder's (entry type, date) bucket returned success in the same pass,
\* and in the state in which the call is made the journal note of the entry's
\* date holds the entry's rendered line as a substring.
C7_DeleteOnlyAfterMerge ==
    [][(Len(log') = Len(log) + 1 /\ log'[Len(log')].op = "delete")
       => /\ MergedWith(log'[Len(log')].pass, log'[Len(log')].bucket, TRUE)
          /\ CurrentEntries(log'[Len(log')].id) # {}
          /\ \A e \in CurrentEntries(log'[Len(log')].id) :
                /\ journal[e.date].exists
                /\ ContentIncludes(journal[e.date].lines, e.record)]_vars

\* a reminder was deleted after a merge that wrote nothing for it, its line
\* being a substring of a line the note already held
C7_Witness ==
    \E i, j \in 1..Len(log) :
        /\ i < j
        /\ log[i].op = "merge" /\ log[i].ok /\ log[i].wrote = <<>>
        /\ log[j].op = "delete" /\ log[j].ok
        /\ log[j].pass = log[i].pass /\ log[j].bucket = log[i].bucket
        /\ \A k \in 1..Len(reminders) : reminders[k].id # log[j].id

SameList(n) ==
    /\ PassStarted(n + 1)
    /\ FetchOf(n + 1).list = FetchOf(n).list

\* every merge of pass n wrote nothing
WroteNothing(n) == \A k \in EventsOf("merge", n) : log[k].wrote = <<>>

\* pass n merged every bucket, and pass n + 1 read the list pass n read, on the
\* same local day
MergedThenSameList(n) ==
    /\ SameList(n)
    /\ FetchOf(n + 1).today = FetchOf(n).today
    /\ PassOver(n)
    /\ \A b \in 1..Len(FetchOf(n).buckets) : MergedWith(n, b, TRUE)

StampTokens == <<"@0", "@1", "@2", "@3", "@4", "@5", "@6">>
TimeTokens ==
    <<"00:00", "01:00", "02:00", "03:00", "04:00", "05:00", "06:00", "07:00",
      "08:00", "09:00", "10:00", "11:00", "12:00", "13:00", "14:00", "15:00",
      "16:00", "17:00", "18:00", "19:00", "20:00", "21:00", "22:00", "23:00">>
Markers == {"[ ]", "[x]", "[X]", "TODO", "DONE"}

IsStamp(tok) == \E i \in 1..Len(StampTokens) : StampTokens[i] = tok
IsTime(tok) == \E i \in 1..Len(TimeTokens) : TimeTokens[i] = tok
\* the day a stamp names, the stamp of a day, the hour a time names
DayOf(tok) == (CHOOSE i \in 1..Len(StampTokens) : StampTokens[i] = tok) - 1
StampOf(day) == StampTokens[day + 1]
HourOf(tok) == (CHOOSE i \in 1..Len(TimeTokens) : TimeTokens[i] = tok) - 1

\* ^-\s+(marker): the position of the marker, 0 if the line does not start so
MarkerPos(line) ==
    IF /\ Len(line) >= 3 /\ line[1] = "-" /\ line[2] = " "
       /\ SkipBlanks(line, 2) <= Len(line)
       /\ line[SkipBlanks(line, 2)] \in Markers
    THEN SkipBlanks(line, 2) ELSE 0

\* \s+@date right after position e: the position of the stamp, 0 if none
StampAfter(line, e) ==
    IF /\ e + 1 <= Len(line) /\ line[e + 1] = " "
       /\ SkipBlanks(line, e + 1) <= Len(line)
       /\ IsStamp(line[SkipBlanks(line, e + 1)])
    THEN SkipBlanks(line, e + 1) ELSE 0

\* (?:\s+(\d{2}):(\d{2}))? right after the stamp at q: the position of the
\* time, 0 if none
TimeAfter(line, q) ==
    IF /\ q + 1 <= Len(line) /\ line[q + 1] = " "
       /\ SkipBlanks(line, q + 1) <= Len(line)
       /\ IsTime(line[SkipBlanks(line, q + 1)])
    THEN SkipBlanks(line, q + 1) ELSE 0

\* \s+(.+?)\s+@date after the marker at k: the ways to split the line into the
\* blanks after the marker (up to p) and the title (up to e)
TitleSplits(line, k) ==
    {pe \in ((k + 1)..(SkipBlanks(line, k + 1) - 1)) \X ((k + 2)..Len(line)) :
        pe[1] < pe[2] /\ StampAfter(line, pe[2]) # 0}

\* the split the regex engine finds: \s+ greedy, (.+?) lazy
TitleSplit(splits) ==
    CHOOSE pe \in splits :
        \A other \in splits :
            pe[1] > other[1] \/ (pe[1] = other[1] /\ pe[2] <= other[2])

NoTask == [ok |-> FALSE, status |-> "", title |-> <<>>, date |-> 0,
           hasTime |-> FALSE, hours |-> 0]

TaskAt(line, k, pe, q, t) ==
    [ok |-> TRUE, status |-> line[k], title |-> SubSeq(line, pe[1] + 1, pe[2]),
     date |-> DayOf(line[q]), hasTime |-> t # 0,
     hours |-> IF t # 0 THEN HourOf(line[t]) ELSE 0]

TaskAtStamp(line, k, pe, q) == TaskAt(line, k, pe, q, TimeAfter(line, q))

TaskAtSplit(line, k, pe) == TaskAtStamp(line, k, pe, StampAfter(line, pe[2]))

TaskFrom(line, k, splits) ==
    IF k = 0 \/ splits = {} THEN NoTask ELSE TaskAtSplit(line, k, TitleSplit(splits))

TaskAfter(line, k) == TaskFrom(line, k, IF k = 0 THEN {} ELSE TitleSplits(line, k))

\* line.match(/^-\s+(?:\[([x\sX])\]|TODO|DONE)\s+(.+?)\s+@(date)(?:\s+(hh):(mm))?/)
TaskMatch(line) == TaskAfter(line, MarkerPos(line))

\* checkboxStatus === 'x' || checkboxStatus === 'X' || line.includes('DONE');
\* before it, the fault of testing the checkbox alone
IsCompletedCheckbox(line, task) == task.status \in {"[x]", "[X]"}
IsCompleted(line, task) ==
    task.status \in {"[x]", "[X]"} \/ \E i \in 1..Len(line) : line[i] = "DONE"

\* taskTitle.match(/^(\d{2}):(\d{2})\s+(.+)/)
TimeInTitle(title) == Len(title) >= 3 /\ IsTime(title[1]) /\ title[2] = " "

\* finalTaskTitle, finalHours: a time at the head of the title counts when the
\* line carries none after its date
FinalTask(task) ==
    IF TimeInTitle(task.title) /\ ~task.hasTime
    THEN [task EXCEPT !.title = RestFrom(task.title, SkipBlanks(task.title, 2)),
                      !.hasTime = TRUE, !.hours = HourOf(task.title[1])]
    ELSE task

\* new Date("YYYY-MM-DD"): midnight UTC of the day
DateOnly(day) == 24 * day

\* new Date("YYYY-MM-DDTHH:00:00"), as the external script reads it: local time
LocalTime(day, hour, offset) == 24 * day + hour - offset

\* now.getHours()
LocalHour(instant, offset) == (instant + offset) % 24

\* today = new Date(); today.setHours(0, 0, 0, 0); before it, the fault of
\* setUTCHours(0, 0, 0, 0)
UtcMidnight(instant, offset) == 24 * (instant \div 24)
LocalMidnight(instant, offset) == 24 * formatLocalDate(instant, offset) - offset

\* lines 687 and 859: if (taskDate < today) continue
PastDate(day, instant, offset) == DateOnly(day) < LocalMidnight(instant, offset)

\* lines 702-721: the due timestamp of the reminder to create
InferDue(task, instant, offset) ==
    IF task.hasTime THEN LocalTime(task.date, task.hours, offset)
    ELSE IF /\ formatLocalDate(DateOnly(task.date), offset)
                  = formatLocalDate(instant, offset)
            /\ LocalHour(instant, offset) >= 9
    THEN LocalTime(task.date, LocalHour(instant + 3, offset), offset)
    ELSE LocalTime(task.date, 9, offset)

\* r.due.split('T')[0]: the UTC date of an ISO timestamp
UtcDate(due) == due \div 24

\* existingReminders.find(...): the position of the first reminder with the
\* trimmed title and the date of the task, 0 if none
FindExisting(list, title, day) ==
    LET hits == {k \in 1..Len(list) :
                    /\ Trim(list[k].title) = Trim(title)
                    /\ list[k].due # NoDue
                    /\ UtcDate(list[k].due) = day}
    IN  IF hits = {} THEN 0 ELSE CHOOSE k \in hits : \A j \in hits : k <= j

\* an id the native store has not handed out
FreshId(list) ==
    1 + (CHOOSE m \in 0..(Len(list) + 8) :
            /\ \A k \in 1..Len(list) : list[k].id <= m
            /\ \A j \in 0..(m - 1) : \E k \in 1..Len(list) : list[k].id > j)

\* the native list after createReminder(title, dueDate) succeeded
Created(list, title, due) ==
    Append(list, [id |-> FreshId(list), title |-> title, due |-> due,
                  completed |-> FALSE])

\* the native list after completeReminder(id) succeeded
Completed(list, id) ==
    [k \in 1..Len(list) |->
        IF list[k].id = id THEN [list[k] EXCEPT !.completed = TRUE] ELSE list[k]]

(***************************************************************************)
(* The reverse sweep of syncCurrentFileToRemindersInternal.                *)
(***************************************************************************)
\* the end of the title in ^(-\s+(?:\[\s\]|TODO))\s+(.+?)\s+@date(?:\s+hh:mm)?$
\* for the marker at k and the stamp of a given day: the stamp, with or without
\* a time, ends the line
SweepSplits(line, k, day) ==
    {pe \in TitleSplits(line, k) :
        /\ line[StampAfter(line, pe[2])] = StampOf(day)
        /\ \/ StampAfter(line, pe[2]) = Len(line)
           \/ /\ TimeAfter(line, StampAfter(line, pe[2])) = Len(line)
              /\ Len(line) # 0}

\* cleanTitle: the title trimmed, without a time at its head
CleanTitle(title) ==
    IF TimeInTitle(Trim(title))
    THEN RestFrom(Trim(title), SkipBlanks(Trim(title), 2))
    ELSE Trim(title)

SweptWith(line, k, splits, r) ==
    IF /\ splits # {}
       /\ CleanTitle(SubSeq(line, TitleSplit(splits)[1] + 1, TitleSplit(splits)[2]))
             = r.title
    THEN <<"-", " ", "DONE">> \o SubSeq(line, k + 1, Len(line))
    ELSE line

SweptAt(line, k, r) ==
    IF k = 0 \/ line[k] \notin {"[ ]", "TODO"} THEN line
    ELSE SweptWith(line, k, SweepSplits(line, k, UtcDate(r.due)), r)

\* one line of the note after the replace for one completed reminder
SweepLine(line, r) == SweptAt(line, MarkerPos(line), r)

\* updatedContent after the replace for every completed reminder with a due date
RECURSIVE Sweep(_, _)
Sweep(content, done) ==
    IF done = <<>> THEN content
    ELSE Sweep([i \in 1..Len(content) |->
                   IF done[1].due = NoDue THEN content[i]
                   ELSE SweepLine(content[i], done[1])],
               Tail(done))

\* allReminders.filter(r => r.completed); before it, the fault of sweeping for
\* every reminder of the list
CompletedOfAll(list) == list
CompletedOf(list) == SelectSeq(list, LAMBDA r : r.completed)

(***************************************************************************)
(* Direction B step by step: syncJournalsToRemindersInternal ("folder")    *)
(* and syncCurrentFileToRemindersInternal ("file").                        *)
(***************************************************************************)
MaxPassesB == 1
MaxTicksB == 1
StartInstantB == 48

TimeZonesB == {-12, -5, 0, 8, 14}

\* what the journal note of day 2 holds before the first pass
NotePoolB ==
    { << <<"-", " ", "[ ]", " ", "milk", " ", "@1">>,
         <<"-", " ", "[x]", " ", "call", " ", "@1", " ", "10:00">>,
         <<"-", " ", "TODO", " ", "milk", " ", "@2">>,
         <<"notes">> >>,
      << <<"-", " ", "DONE", " ", "call", " ", "@2">>,
         <<"-", " ", "[ ]", " ", "14:00", " ", "gym", " ", "@3">>,
         <<"-", " ", "TODO", " ", "call", " ", "@1", " ", "10:00">> >>,
      << <<"-", " ", "[ ]", " ", "call", " ", "@2", " ", "07:00">>,
         <<"-", " ", "[ ]", " ", "call", " ", "@2", " ", "20:00">> >>,
      << <<"-", " ", "[ ]", " ", "DONE", " ", "list", " ", "@3">> >> }

\* the native lists a behaviour starts from
NativeListsB ==
    { <<>>,
      << [id |-> 1, title |-> <<"call">>, due |-> 34, completed |-> FALSE],
         [id |-> 2, title |-> <<"call">>, due |-> 58, completed |-> FALSE] >>,
      << [id |-> 1, title |-> <<"milk">>, due |-> 33, completed |-> TRUE],
         [id |-> 2, title |-> <<"call">>, due |-> 34, completed |-> TRUE] >>,
      << [id |-> 1, title |-> <<"milk">>, due |-> 57, completed |-> TRUE],
         [id |-> 2, title |-> <<"$", "cy", " ", "5">>, due |-> 57,
          completed |-> FALSE] >> }

\* an entry of the history of Direction B
TaskEvent(op, line, id, read, ok, task, due) ==
    [op |-> op, pass |-> passB.n, variant |-> passB.variant, file |-> passB.file,
     line |-> line, id |-> id, read |-> read, ok |-> ok, title |-> task.title,
     date |-> task.date, due |-> due, today |-> formatLocalDate(now, tz)]

\* the notes of the journal folder, as vault.getMarkdownFiles() lists them
RECURSIVE JournalFiles(_, _)
JournalFiles(jour, from) ==
    IF from \notin Days THEN <<>>
    ELSE (IF jour[from].exists THEN <<from>> ELSE <<>>) \o JournalFiles(jour, from + 1)

\* the pass after the last line of a note: the folder variant goes on to the
\* next note, the file variant to the reverse sweep if (hasTask)
AfterNote(p) ==
    IF p.variant = "folder"
    THEN IF Len(p.files) > 1
         THEN [p EXCEPT !.pc = "read", !.files = Tail(@), !.file = p.files[2],
                        !.content = <<>>, !.li = 0]
         ELSE [p EXCEPT !.pc = "done", !.files = <<>>]
    ELSE IF p.hasTask THEN [p EXCEPT !.pc = "sweep"] ELSE [p EXCEPT !.pc = "done"]

\* the pass after a line
AfterLine(p, isTask) ==
    IF p.li < Len(p.content)
    THEN [p EXCEPT !.li = @ + 1, !.hasTask = @ \/ isTask]
    ELSE AfterNote([p EXCEPT !.hasTask = @ \/ isTask])

\* syncJournalsToRemindersInternal starts: the notes under journalsPath
StartFolder(max) ==
    /\ passB.pc \in {"idle", "done"}
    /\ passB.n < max
    /\ LET files == JournalFiles(journal, 0)
       IN  passB' = [pc |-> IF files = <<>> THEN "done" ELSE "read",
                     n |-> passB.n + 1, variant |-> "folder", files |-> files,
                     file |-> IF files = <<>> THEN 0 ELSE files[1],
                     content |-> <<>>, li |-> 0, hasTask |-> FALSE]
    /\ UNCHANGED <<reminders, journal, now, tz, passA, log>>
    /\ UNCHANGED gateVars

StartFolderB == StartFolder(MaxPassesB)

\* const content = await vault.read(file): a read that throws ends the pass
ReadB(ok) ==
    /\ passB.pc = "read"
    /\ passB' = IF ~ok THEN [passB EXCEPT !.pc = "done"]
                ELSE IF journal[passB.file].lines = <<>> THEN AfterNote(passB)
                ELSE [passB EXCEPT !.pc = "line", !.li = 1,
                                   !.content = journal[passB.file].lines]
    /\ UNCHANGED <<reminders, journal, now, tz, passA, log>>
    /\ UNCHANGED gateVars

\* syncFileWithReminders(file, content) starts, with the text the debounce
\* callback read and found a date stamp in
StartFile(f, max) ==
    /\ passB.pc \in {"idle", "done"}
    /\ passB.n < max
    /\ journal[f].exists
    /\ \E i \in 1..Len(journal[f].lines) :
          \E j \in 1..Len(journal[f].lines[i]) : IsStamp(journal[f].lines[i][j])
    /\ passB' = [pc |-> "dirA", n |-> passB.n + 1, variant |-> "file",
                 files |-> <<f>>, file |-> f, content |-> journal[f].lines,
                 li |-> 1, hasTask |-> FALSE]
    /\ UNCHANGED <<reminders, journal, now, tz, passA, log>>
    /\ UNCHANGED gateVars

StartFileB(f) == StartFile(f, MaxPassesB)

\* line 828, step 1 of the file sync: syncRemindersToJournalInternal(true) as
\* one step, every call of it succeeding or its read failing; then line 832,
\* syncCurrentFileToRemindersInternal(file, content), starts on the text read
\* before the lock was taken
FileStepA(out) ==
    /\ reminders' = out.reminders
    /\ journal' = out.journal
    /\ passB' = [passB EXCEPT !.pc = "line"]

FileDirectionA(ok) ==
    /\ passB.pc = "dirA"
    /\ FileStepA(IF ok THEN RunDirectionA(reminders, journal, now, tz)
                 ELSE [reminders |-> reminders, journal |-> journal])
    /\ UNCHANGED <<now, tz, passA, log>>
    /\ UNCHANGED gateVars

\* the task is dated today or later: the reminders are read, and the task's
\* reminder is completed or created
SyncTask(line, task, found, isCompleted, readOk, callOk) ==
    IF found # 0
    THEN IF isCompleted
         THEN /\ reminders' = IF callOk THEN Completed(reminders, found)
                              ELSE reminders
              /\ log' = Append(log, TaskEvent("complete", passB.li, found,
                                              readOk, callOk, task, 0))
         ELSE /\ log' = Append(log, TaskEvent("exists", passB.li, found,
                                              readOk, TRUE, task, 0))
              /\ UNCHANGED reminders
    ELSE IF ~isCompleted
    THEN /\ reminders' = IF callOk
                         THEN Created(reminders, Trim(task.title),
                                      InferDue(task, now, tz))
                         ELSE reminders
         /\ log' = Append(log, TaskEvent("create", passB.li,
                                         IF callOk THEN FreshId(reminders) ELSE 0,
                                         readOk, callOk, task,
                                         InferDue(task, now, tz)))
    ELSE /\ log' = Append(log, TaskEvent("none", passB.li, 0, readOk, TRUE,
                                         task, 0))
         /\ UNCHANGED reminders

\* the id of the reminder existingReminders.find returns, 0 if none
FoundId(list, k) == IF k = 0 THEN 0 ELSE list[k].id

FoundIn(list, task) == FoundId(list, FindExisting(list, task.title, task.date))

TaskStep(line, task, readOk, callOk) ==
    IF ~task.ok
    THEN UNCHANGED <<reminders, log>>
    ELSE IF PastDate(task.date, now, tz)
    THEN /\ log' = Append(log, TaskEvent("skip", passB.li, 0, TRUE, TRUE, task, 0))
         /\ UNCHANGED reminders
    ELSE SyncTask(line, FinalTask(task),
                  FoundIn(IF readOk THEN getReminders(reminders, now) ELSE <<>>,
                          FinalTask(task)),
                  IsCompleted(line, task), readOk, callOk)

LineStep(line, task, readOk, callOk) ==
    /\ TaskStep(line, task, readOk, callOk)
    /\ passB' = AfterLine(passB, task.ok)

\* one turn of the loop over the lines of a note, in either variant
LineB(readOk, callOk) ==
    /\ passB.pc = "line"
    /\ LineStep(passB.content[passB.li], TaskMatch(passB.content[passB.li]),
                readOk, callOk)
    /\ UNCHANGED <<journal, now, tz, passA>>
    /\ UNCHANGED gateVars

SweepStep(updated, readOk, writeOk) ==
    /\ journal' = IF updated # passB.content /\ writeOk
                  THEN [journal EXCEPT ![passB.file] =
                           [exists |-> TRUE, lines |-> updated]]
                  ELSE journal
    /\ log' = Append(log, [op |-> "sweep", pass |-> passB.n,
                           variant |-> passB.variant, file |-> passB.file,
                           line |-> 0, id |-> 0, read |-> readOk,
                           ok |-> (updated = passB.content \/ writeOk),
                           title |-> <<>>, date |-> 0, due |-> 0,
                           today |-> formatLocalDate(now, tz)])

\* the reverse sweep of the file variant: the completed reminders are read and
\* the note is rewritten when a task line of it was marked
SweepB(readOk, writeOk) ==
    /\ passB.pc = "sweep"
    /\ SweepStep(Sweep(passB.content,
                       CompletedOf(IF readOk THEN getReminders(reminders, now)
                                   ELSE <<>>)),
                 readOk, writeOk)
    /\ passB' = [passB EXCEPT !.pc = "done"]
    /\ UNCHANGED <<reminders, now, tz, passA>>
    /\ UNCHANGED gateVars

\* an hour passes
TickB ==
    /\ now + 1 <= StartInstantB + 23 + MaxTicksB
    /\ passB.pc \in {"dirA", "line", "read", "sweep"}
    /\ now' = now + 1
    /\ UNCHANGED <<reminders, journal, tz, passA, passB, log>>
    /\ UNCHANGED gateVars

InitB ==
    /\ syncLock = FALSE
    /\ syncQueue = 0
    /\ globalSyncing = FALSE
    /\ syncDebounceTimers = {}
    /\ syncIntervalId = FALSE
    /\ startupPending = FALSE
    /\ reading = {}
    /\ calls = <<>>
    /\ startOrder = <<>>
    /\ reminders \in NativeListsB
    /\ \E note \in NotePoolB :
          journal = [d \in Days |-> IF d = 2 THEN [exists |-> TRUE, lines |-> note]
                                    ELSE NoFile]
    /\ now \in StartInstantB..(StartInstantB + 23)
    /\ tz \in TimeZonesB
    /\ passA = idlePassA
    /\ passB = idlePassB
    /\ log = <<>>

NextB ==
    \/ StartFolderB
    \/ \E ok \in BOOLEAN : ReadB(ok)
    \/ \E f \in Days : StartFileB(f)
    \/ \E ok \in BOOLEAN : FileDirectionA(ok)
    \/ \E readOk, callOk \in BOOLEAN : LineB(readOk, callOk)
    \/ \E readOk, writeOk \in BOOLEAN : SweepB(readOk, writeOk)
    \/ TickB

SpecB == InitB /\ [][NextB]_vars

(***************************************************************************)
(* The round trip: Direction B over a note, twice, the owner of the native *)
(* list completing a reminder in the Reminders application in between.     *)
(* The clock stands still over the two passes.                             *)
(***************************************************************************)
MaxPassesC == 2
MaxCompletionsC == 1

\* the hours of day 2 (UTC) a behaviour starts at
InstantsC == {50, 62}

\* what the journal note of day 2 holds: tasks dated after the local day at
\* every offset, with and without a time, with a time at the head of the title,
\* with text after the date
NotePoolC ==
    { << <<"-", " ", "[ ]", " ", "milk", " ", "@3">>,
         <<"-", " ", "[ ]", " ", "call", " ", "@3", " ", "16:00">> >>,
      << <<"-", " ", "TODO", " ", "14:00", " ", "gym", " ", "@3">>,
         <<"-", " ", "[ ]", " ", "milk", " ", "@4", " ", "soon">> >>,
      << <<"-", " ", "[ ]", " ", "jog", " ", "5", "km", " ", "@3">> >> }

\* the reminder is ticked off in the Reminders application, between two passes
NativeComplete(id) ==
    /\ passB.pc = "done"
    /\ Cardinality({k \in 1..Len(log) : log[k].op = "native"}) < MaxCompletionsC
    /\ \E k \in 1..Len(reminders) : reminders[k].id = id /\ ~reminders[k].completed
    /\ reminders' = Completed(reminders, id)
    /\ log' = Append(log, TaskEvent("native", 0, id, TRUE, TRUE, NoTask, 0))
    /\ UNCHANGED <<journal, now, tz, passA, passB>>
    /\ UNCHANGED gateVars

InitC ==
    /\ syncLock = FALSE
    /\ syncQueue = 0
    /\ globalSyncing = FALSE
    /\ syncDebounceTimers = {}
    /\ syncIntervalId = FALSE
    /\ startupPending = FALSE
    /\ reading = {}
    /\ calls = <<>>
    /\ startOrder = <<>>
    /\ reminders = <<>>
    /\ \E note \in NotePoolC :
          journal = [d \in Days |-> IF d = 2 THEN [exists |-> TRUE, lines |-> note]
                                    ELSE NoFile]
    /\ now \in InstantsC
    /\ tz \in TimeZonesB
    /\ passA = idlePassA
    /\ passB = idlePassB
    /\ log = <<>>

NextC ==
    \/ StartFolder(MaxPassesC)
    \/ \E ok \in BOOLEAN : ReadB(ok)
    \/ \E f \in Days : StartFile(f, MaxPassesC)
    \/ \E ok \in BOOLEAN : FileDirectionA(ok)
    \/ \E readOk, callOk \in BOOLEAN : LineB(readOk, callOk)
    \/ \E readOk, writeOk \in BOOLEAN : SweepB(readOk, writeOk)
    \/ \E id \in 1..4 : NativeComplete(id)

SpecC == InitC /\ [][NextC]_vars

(***************************************************************************)
(* Properties of Direction B.                                              *)
(***************************************************************************)
\* C10: Direction B, in the folder variant and in the file variant, calls
\* neither createReminder nor completeReminder for a task line whose date is
\* strictly before the local day of the moment the line is processed, whatever
\* the hour and the timezone offset.
C10_NoBackfill ==
    [][(Len(log') = Len(log) + 1 /\ log'[Len(log')].op \in {"create", "complete"})
       => ~(log'[Len(log')].date < formatLocalDate(now, tz))]_vars

\* east of UTC in the small hours, when the UTC date is still yesterday's, a
\* file sync has skipped a task dated yesterday and created the reminder of a
\* task dated today
C10_Witness ==
    /\ tz > 0
    /\ passB.pc = "done" /\ passB.variant = "file"
    /\ \E i, j \in 1..Len(log) :
          /\ log[i].op = "skip" /\ log[i].date = log[i].today - 1
          /\ log[j].op = "create" /\ log[j].ok /\ log[j].date = log[j].today
          /\ UtcDate(log[j].due) < log[j].today

\* the line a pass is at, the task the extractor finds in it, and the entry a
\* step adds to the history
LineAt == passB.content[passB.li]
TaskHere == TaskMatch(LineAt)
Logged == log'[Len(log')]

\* a step that has processed a task line
TaskDone == passB.pc = "line" /\ Len(log') = Len(log) + 1 /\ TaskHere.ok

\* the marker of the line is a checked box or DONE
Checked(line) == line[MarkerPos(line)] \in {"[x]", "[X]", "DONE"}

\* the task is dated the local day of the step or later
NotPast(task) == task.date >= formatLocalDate(now, tz)

\* C12: for a task line that is not completed, is dated today or later, carries
\* a time after its date and has no reminder with its title and date in the
\* native list, the step calls createReminder with the trimmed title and the
\* local time <date>T<HH>:<MM>:00.
C12_CreatesAtGivenTime ==
    [][(/\ TaskDone
        /\ ~Checked(LineAt) /\ ~IsCompleted(LineAt, TaskHere)
        /\ NotPast(TaskHere)
        /\ TaskHere.hasTime
        /\ FindExisting(reminders, TaskHere.title, TaskHere.date) = 0)
       => (/\ Logged.op = "create"
           /\ Logged.due = LocalTime(TaskHere.date, TaskHere.hours, tz)
           /\ Logged.ok =>
                 reminders' = Append(reminders,
                                 [id |-> Logged.id, title |-> Trim(TaskHere.title),
                                  due |-> LocalTime(TaskHere.date, TaskHere.hours, tz),
                                  completed |-> FALSE]))]_vars

\* C13: for a task line that is checked or DONE and has no reminder with its
\* title and date in the native list, the step creates, completes and deletes
\* no reminder.
C13_CompletedUnmatchedInert ==
    [][(/\ TaskDone
        /\ Checked(LineAt)
        /\ FindExisting(reminders, FinalTask(TaskHere).title, TaskHere.date) = 0)
       => (/\ Logged.op \in {"none", "skip"}
           /\ reminders' = reminders)]_vars

\* a DONE task line dated today or later was processed, the read of the native
\* list succeeding and finding nothing, and no reminder was created or
\* completed
C13_Witness ==
    /\ log # <<>>
    /\ log[Len(log)].op = "none" /\ log[Len(log)].read
    /\ Checked(journal[log[Len(log)].file].lines[log[Len(log)].line])
    /\ log[Len(log)].date >= log[Len(log)].today
    /\ \A k \in 1..Len(log) : log[k].op \notin {"create", "complete"}
    /\ reminders = <<>>

\* C14: when the native list holds a reminder with the title and date of a task
\* line dated today or later, the step calls completeReminder for that reminder
\* if the line is checked or DONE, and otherwise creates, completes and deletes
\* nothing.
C14_MatchedTask ==
    [][(/\ TaskDone
        /\ NotPast(TaskHere)
        /\ FoundIn(getReminders(reminders, now), FinalTask(TaskHere)) # 0)
       => IF Checked(LineAt)
          THEN /\ Logged.op = "complete"
               /\ Logged.id = FoundIn(getReminders(reminders, now), FinalTask(TaskHere))
          ELSE /\ Logged.op = "exists"
               /\ reminders' = reminders]_vars

\* C15: of two task lines of one pass with the same title and date, the second
\* is matched to the reminder created for the first, whatever their times (no
\* read and no call failing).
C15_SameKeyOneReminder ==
    \A i, j \in 1..Len(log) :
        (/\ i < j
         /\ log[i].pass = log[j].pass /\ log[i].file = log[j].file
         /\ log[i].line # log[j].line
         /\ log[i].op = "create" /\ log[i].read /\ log[i].ok
         /\ log[j].op \in {"create", "exists", "complete", "none"}
         /\ log[j].read
         /\ Trim(log[i].title) = Trim(log[j].title) /\ log[i].date = log[j].date)
        => (log[j].op = "exists" /\ log[j].id = log[i].id)

\* the line with its marker replaced by DONE
MarkedDone(line) ==
    <<"-", " ", "DONE">> \o SubSeq(line, MarkerPos(line) + 1, Len(line))

\* C17: the note update of the reverse sweep leaves the note as it was stored
\* right before the update but for the markers of task lines.
C17_SweepAltersOnlyMarkers ==
    [][(passB.pc = "sweep" /\ journal' # journal)
       => (/\ \A d \in Days : d # passB.file => journal'[d] = journal[d]
           /\ Len(journal'[passB.file].lines) = Len(journal[passB.file].lines)
           /\ \A i \in 1..Len(journal[passB.file].lines) :
                 \/ journal'[passB.file].lines[i] = journal[passB.file].lines[i]
                 \/ /\ MarkerPos(journal[passB.file].lines[i]) # 0
                    /\ journal'[passB.file].lines[i]
                          = MarkedDone(journal[passB.file].lines[i]))]_vars

\* no read and no call failed up to entry j of the history
NoFailure(j) == \A k \in 1..j : log[k].read /\ log[k].ok

\* no reminder was ticked off in the Reminders application up to entry j
Untouched(j) == \A k \in 1..j : log[k].op # "native"

\* C11: once a pass has created the reminder of a task line, a later pass over
\* the unchanged journal, no read or call having failed and the native list
\* left alone, finds that reminder and creates no second one for the line.
C11_NoSecondReminder ==
    \A i, j \in 1..Len(log) :
        (/\ i < j
         /\ log[i].op = "create"
         /\ log[j].pass > log[i].pass
         /\ log[j].file = log[i].file /\ log[j].line = log[i].line
         /\ log[j].op \in {"create", "exists", "complete", "none"}
         /\ NoFailure(j) /\ Untouched(j))
        => (log[j].op = "exists" /\ log[j].id = log[i].id)

\* entry m of the history is the reverse sweep of a file sync of the note, its
\* read and its write having succeeded
SweepOf(m, file) ==
    /\ log[m].op = "sweep" /\ log[m].file = file
    /\ log[m].read /\ log[m].ok

\* the reminder was ticked off in the Reminders application between entries i
\* and m
CompletedBetween(i, m, id) ==
    \E k \in (i + 1)..(m - 1) : log[k].op = "native" /\ log[k].id = id

\* C16: a task line for which a pass created a reminder, the reminder then
\* being completed in the native list, is in its completed form after the
\* reverse sweep of the next file sync of its note.
C16_RoundTrip ==
    \A i, m \in 1..Len(log) :
        (/\ log[i].op = "create" /\ log[i].ok /\ log[i].pass = 1
         /\ SweepOf(m, log[i].file) /\ log[m].pass = 2
         /\ CompletedBetween(i, m, log[i].id))
        => journal[log[i].file].lines[log[i].line][3] = "DONE"

(***************************************************************************)
(* The title classifier over every short title: one reminder whose title   *)
(* is any sequence of tokens up to a length, and the body of the loop of   *)
(* syncRemindersToJournalInternal applied to it.                           *)
(***************************************************************************)
MaxTitleLen == 4

\* the tokens a title is made of: the expense emoji, a category keyword, a
\* blank, two digits, a dot, a word, a smart-keyword trigger, a video trigger,
\* a habit trigger and a currency unit
TitleTokens == {"$", "cy", " ", "5", "0", ".", "x", "taxi", "film", "jog", "yuan"}

Titles == UNION {[1..n -> TitleTokens] : n \in 0..MaxTitleLen}

\* what the loop body derived from a reminder: the three parsers' results and
\* the entry that was pushed
ClassifyEvent(r, a, v, h) ==
    [op |-> "classify", id |-> r.id, title |-> r.title, accounting |-> a,
     video |-> v, habit |-> h, entry |-> Classified(a, v, h)]

ClassifyReminder(r) ==
    log' = Append(log, ClassifyEvent(r, parseReminderTitle(r.title),
                                     parseVideoReminder(r.title),
                                     parseHabitReminder(r.title)))

\* lines 524-553: the body of the loop for the next reminder of the list
ClassifyNext ==
    /\ Len(log) < Len(reminders)
    /\ ClassifyReminder(reminders[Len(log) + 1])
    /\ UNCHANGED <<reminders, journal, now, tz, passA, passB>>
    /\ UNCHANGED gateVars

InitT ==
    /\ syncLock = FALSE
    /\ syncQueue = 0
    /\ globalSyncing = FALSE
    /\ syncDebounceTimers = {}
    /\ syncIntervalId = FALSE
    /\ startupPending = FALSE
    /\ reading = {}
    /\ calls = <<>>
    /\ startOrder = <<>>
    /\ \E t \in Titles :
          reminders = <<[id |-> 1, title |-> t, due |-> NoDue, completed |-> FALSE]>>
    /\ journal = [d \in Days |-> NoFile]
    /\ now = StartInstant
    /\ tz = 0
    /\ passA = idlePassA
    /\ passB = idlePassB
    /\ log = <<>>

NextT == ClassifyNext

SpecT == InitT /\ [][NextT]_vars

(***************************************************************************)
(* Properties of the title classifier.                                     *)
(***************************************************************************)
\* the title holds a trigger phrase of the table
Triggers(table, title) ==
    \E i \in 1..Len(table) : \E t \in table[i].triggers :
        \E k \in 1..Len(title) : title[k] = t

\* C21: the expense check runs first, then the media-log triggers, then the
\* habit triggers: a title the expense check accepts yields an expense entry
\* whatever triggers it holds, a title it rejects that holds a media-log trigger
\* yields a media-log entry even when it holds a habit trigger too, and a habit
\* entry is yielded only when neither of the two matched; no title yields more
\* than one entry.
C21_FirstMatchWins ==
    \A k \in 1..Len(log) :
        /\ log[k].accounting.ok => log[k].entry.type = "accounting"
        /\ (~log[k].accounting.ok /\ Triggers(videoKeywords, log[k].title))
           => log[k].entry.type = "video"
        /\ (/\ ~log[k].accounting.ok
            /\ ~Triggers(videoKeywords, log[k].title)
            /\ Triggers(habitKeywords, log[k].title))
           => log[k].entry.type = "habit"
        /\ (/\ ~log[k].accounting.ok
            /\ ~Triggers(videoKeywords, log[k].title)
            /\ ~Triggers(habitKeywords, log[k].title))
           => log[k].entry = NoEntry
        /\ Len(EntryOf(reminders[k], log[k].entry, now, tz)) <= 1

\* a title that satisfies the media-log path and the habit path, and not the
\* expense path, was classified
C21_Witness ==
    \E k \in 1..Len(log) :
        /\ ~log[k].accounting.ok
        /\ Triggers(videoKeywords, log[k].title)
        /\ Triggers(habitKeywords, log[k].title)
        /\ log[k].entry.type = "video"

\* the positions of a title where a category keyword follows the expense emoji
\* with nothing but blanks in between and something after it
KeywordsAfterEmoji(title) ==
    {k \in 2..(Len(title) - 1) :
        /\ title[k] \in categories
        /\ \E i \in 1..(k - 1) :
              /\ title[i] = expenseEmoji
              /\ \A j \in (i + 1)..(k - 1) : title[j] = " "}

\* the text of a title at the positions from..to, "" when there is none
Slice(text, from, to) == IF from <= to THEN SubSeq(text, from, to) ELSE <<>>

\* a text without the run at [from, to] and without a currency unit right
\* after the run
WithoutRun(text, from, to) ==
    Slice(text, 1, from - 1)
    \o Slice(text, IF to < Len(text) /\ text[to + 1] \in Units THEN to + 2 ELSE to + 1,
             Len(text))

\* the entry of a title whose first keyword after an emoji is at position k,
\* the text after the keyword being rest and its first run of digits and dots
\* being at run: the keyword, the number the run parses to, the rest without
\* the run
Extracted(e, keyword, rest, run) ==
    IsPositive(ParseFloat(Slice(rest, run[1], run[2])))
    => /\ e.ok
       /\ e.keyword = keyword
       /\ e.amount = ParseFloat(Slice(rest, run[1], run[2]))
       /\ e.description = Trim(WithoutRun(rest, run[1], run[2]))

ExtractedFrom(e, keyword, rest) ==
    AmountRun(rest)[1] # 0 => Extracted(e, keyword, rest, AmountRun(rest))

ExtractedAt(e, title, k) ==
    ExtractedFrom(e, title[k], RestFrom(title, SkipBlanks(title, k + 1)))

NumericRun(title) == Slice(title, AmountRun(title)[1], AmountRun(title)[2])

C23_NoDigitNoExpense ==
    \A n \in 1..Len(log) :
        (\A i \in 1..Len(log[n].title) : log[n].title[i] \notin Digits)
        => (~log[n].accounting.ok /\ log[n].entry.type # "accounting")

\* a title with the emoji, a keyword and a smart-keyword trigger and without a
\* digit was classified
C23_Witness ==
    \E n \in 1..Len(log) :
        /\ log[n].title = <<"$", "cy", " ", "taxi">>
        /\ ~log[n].accounting.ok
        /\ log[n].entry = NoEntry

(***************************************************************************)
(* The Merge-Writer over many notes: Direction A step by step, started on  *)
(* a journal note made of any few lines of a pool.                         *)
(***************************************************************************)
MaxNoteLines == 3
MaxBatch == 2

\* the lines a note of the model is made of: a blank line, a lone dash, a line
\* of text and two records, the first a substring of the second
LinePool ==
    { <<>>, <<"-", " ">>, <<"notes">>,
      <<"-", " ", "$", "cy", " ", "5">>,
      <<"-", " ", "$", "cy", " ", "5", "0", " ", "lunch">> }

NotesM ==
    {NoFile} \cup
    {[exists |-> TRUE, lines |-> ls] :
        ls \in UNION {[1..n -> LinePool] : n \in 0..MaxNoteLines}}

NativeListsM ==
    {Pick(ReminderPool, chosen) :
        chosen \in {c \in SUBSET (1..Len(ReminderPool)) :
                       Cardinality(c) >= 1 /\ Cardinality(c) <= MaxBatch}}

InitM ==
    /\ syncLock = FALSE
    /\ syncQueue = 0
    /\ globalSyncing = FALSE
    /\ syncDebounceTimers = {}
    /\ syncIntervalId = FALSE
    /\ startupPending = FALSE
    /\ reading = {}
    /\ calls = <<>>
    /\ startOrder = <<>>
    /\ reminders \in NativeListsM
    /\ \E note \in NotesM : journal = [d \in Days |-> note]
    /\ now = StartInstant
    /\ tz = 0
    /\ passA = idlePassA
    /\ passB = idlePassB
    /\ log = <<>>

NextM ==
    \/ \E ok \in BOOLEAN : FetchA(ok)
    \/ \E threw \in BOOLEAN : MergeA(threw)
    \/ \E ok \in BOOLEAN : DeleteA(ok)

SpecM == InitM /\ [][NextM]_vars

(***************************************************************************)
(* Properties of the Merge-Writer.                                         *)
(***************************************************************************)
\* the step is a merge that raised no error
MergeDone ==
    /\ passA.pc = "merge"
    /\ Len(log') = Len(log) + 1
    /\ log'[Len(log')].op = "merge" /\ log'[Len(log')].ok

\* the lines of a batch that no line of a note holds as a substring, in the
\* order of the batch
Missing(lines, batch) ==
    SelectSeq(batch, LAMBDA rec :
        ~\E i \in 1..Len(lines) :
            \E a \in 1..(Len(lines[i]) - Len(rec) + 1) :
                SubSeq(lines[i], a, a + Len(rec) - 1) = rec)

\* a line that is blank or a lone "-" once trimmed
Strippable(line) == \A i \in 1..Len(line) : line[i] = " " \/
    (line[i] = "-" /\ \A j \in 1..Len(line) : j # i => line[j] = " ")

\* the first p lines of a note are the note without its trailing blank and
\* lone "-" lines
StrippedAt(lines, p) ==
    /\ \A i \in (p + 1)..Len(lines) : Strippable(lines[i])
    /\ p > 0 => ~Strippable(lines[p])

\* what a merge of the batch makes of a note
MergedAs(old, new, batch) ==
    IF ~old.exists THEN new = [exists |-> TRUE, lines |-> batch]
    ELSE IF Missing(old.lines, batch) = <<>> THEN new = old
    ELSE /\ new.exists
         /\ \E p \in 0..Len(old.lines) :
               /\ StrippedAt(old.lines, p)
               /\ new.lines = SubSeq(old.lines, 1, p) \o Missing(old.lines, batch)

\* C24: a merge that raises no error adds to an existing note only the lines
\* of the batch that no line of the note holds as a substring, in the order of
\* the batch, after the note's content without its trailing blank and lone "-"
\* lines; when no line is missing the note is left as it is and the merge
\* returns success; a note that does not exist is created with the full batch.
C24_MergeWriter ==
    [][MergeDone
       => /\ MergedAs(journal[passA.buckets[passA.bi].date],
                      journal'[passA.buckets[passA.bi].date],
                      RecordsOf(passA.buckets[passA.bi]))
          /\ \A d \in Days :
                d # passA.buckets[passA.bi].date => journal'[d] = journal[d]]_vars

\* a batch of two records was merged into a note that held the first and ended
\* with a lone dash: the second was written in place of the dash
C24_Witness ==
    \E k \in 1..Len(log) :
        /\ log[k].op = "merge" /\ log[k].ok
        /\ Len(FetchOf(log[k].pass).buckets[log[k].bucket].items) = 2
        /\ log[k].wrote = << <<"-", " ", "$", "cy", " ", "5", "0", " ", "lunch">> >>
        /\ journal[0].lines = << <<"notes">>, <<"-", " ", "$", "cy", " ", "5">>,
                                 <<"-", " ">> >>
        /\ journal[FetchOf(log[k].pass).buckets[log[k].bucket].date].lines
             = << <<"notes">>, <<"-", " ", "$", "cy", " ", "5">>,
                  <<"-", " ", "$", "cy", " ", "5", "0", " ", "lunch">> >>

(***************************************************************************)
(* Properties of Direction A: reminders without a match.                   *)
(***************************************************************************)
\* the reminders of the pool whose title matches none of the three parsers
Unclassified ==
    {i \in 1..Len(ReminderPool) :
        /\ ~parseReminderTitle(ReminderPool[i].title).ok
        /\ ~parseVideoReminder(ReminderPool[i].title).ok
        /\ ~parseHabitReminder(ReminderPool[i].title).ok}

\* a pass fetched the reminder
Fetched(r) ==
    \E k \in 1..Len(log) :
        /\ log[k].op = "fetch"
        /\ \E j \in 1..Len(log[k].list) : log[k].list[j] = r

\* C25: a reminder whose title classifies as none is never handed to
\* deleteReminder by a pass, no line written to a journal note holds its title,
\* and once a pass has fetched it it is still in the native list, as it was.
C25_UnclassifiedInert ==
    \A i \in Unclassified :
        /\ \A k \in 1..Len(log) :
              /\ log[k].op = "delete" => log[k].id # ReminderPool[i].id
              /\ log[k].op = "merge" =>
                    \A w \in 1..Len(log[k].wrote) :
                        ~Includes(log[k].wrote[w], ReminderPool[i].title)
        /\ \A d \in Days : \A l \in 1..Len(journal[d].lines) :
              ~Includes(journal[d].lines[l], ReminderPool[i].title)
        /\ Fetched(ReminderPool[i])
           => \E j \in 1..Len(reminders) : reminders[j] = ReminderPool[i]

\* a pass that fetched a reminder without a match next to two that match has
\* returned: the two are deleted and the native list holds the third alone
C25_Witness ==
    /\ PassOver(1)
    /\ Len(FetchOf(1).list) = 3
    /\ \E i \in Unclassified : reminders = <<ReminderPool[i]>>
    /\ \E k \in 1..Len(log) : log[k].op = "delete" /\ log[k].ok

(***************************************************************************)
(* The gateway: runJXA and the four functions built on it, each call with  *)
(* the outcome of the external process as an input.                        *)
(***************************************************************************)
MaxGatewayCalls == 2

Null == "null"

\* how execAsync settles: the process exits with 0, exits with an error (a
\* script that throws included), or is killed at the timeout
Outcomes == {"ok", "error", "timeout"}

\* what a script that ran to its end prints
Outputs == {"json", "garbage", ""}

\* a script whose process was killed at the timeout may have acted before
Acted(outcome, done) == outcome = "ok" \/ (outcome = "timeout" /\ done)

\* lines 224-234: try { ...; return stdout.trim() } catch { return null };
\* before it, the fault of a catch block that throws again
runJXARethrows(outcome, stdout) ==
    [threw |-> outcome # "ok", value |-> IF outcome = "ok" THEN stdout ELSE Null]
runJXA(outcome, stdout) ==
    [threw |-> FALSE, value |-> IF outcome = "ok" THEN stdout ELSE Null]

\* lines 277-285: if (!output) return []; try { return JSON.parse(output) }
\* catch { return [] }, given what the script listed
ParsedOutput(result, listed) ==
    IF result.threw THEN [threw |-> TRUE, value |-> <<>>]
    ELSE IF result.value \in {Null, ""} THEN [threw |-> FALSE, value |-> <<>>]
    ELSE IF result.value = "json" THEN [threw |-> FALSE, value |-> listed]
    ELSE [threw |-> FALSE, value |-> <<>>]

\* lines 758, 770, 776: return result !== null
NotNull(result) == [threw |-> result.threw, value |-> result.value # Null]

GatewayEvent(op, id, outcome, stdout, result, returned) ==
    [op |-> op, id |-> id, outcome |-> outcome, stdout |-> stdout,
     raw |-> result.value, threw |-> returned.threw, returned |-> returned.value]

GatewayCall(op, id, outcome, stdout, result, returned) ==
    /\ Len(log) < MaxGatewayCalls
    /\ log' = Append(log, GatewayEvent(op, id, outcome, stdout, result, returned))
    /\ UNCHANGED <<journal, now, tz, passA, passB>>
    /\ UNCHANGED gateVars

\* getReminders()
GetG(outcome, stdout) ==
    /\ GatewayCall("getReminders", 0, outcome, stdout, runJXA(outcome, stdout),
                   ParsedOutput(runJXA(outcome, stdout),
                                getReminders(reminders, now)))
    /\ UNCHANGED reminders

\* deleteReminder(id)
DeleteG(id, outcome, done) ==
    /\ GatewayCall("deleteReminder", id, outcome, "ok", runJXA(outcome, "ok"),
                   NotNull(runJXA(outcome, "ok")))
    /\ reminders' = IF Acted(outcome, done) THEN Deleted(reminders, id)
                    ELSE reminders

\* createReminder(title, dueDate)
CreateG(title, outcome, done) ==
    /\ GatewayCall("createReminder", FreshId(reminders), outcome, "ok",
                   runJXA(outcome, "ok"), NotNull(runJXA(outcome, "ok")))
    /\ reminders' = IF Acted(outcome, done) THEN Created(reminders, title, now)
                    ELSE reminders

\* completeReminder(id)
CompleteG(id, outcome, done) ==
    /\ GatewayCall("completeReminder", id, outcome, "ok", runJXA(outcome, "ok"),
                   NotNull(runJXA(outcome, "ok")))
    /\ reminders' = IF Acted(outcome, done) THEN Completed(reminders, id)
                    ELSE reminders

InitG ==
    /\ syncLock = FALSE
    /\ syncQueue = 0
    /\ globalSyncing = FALSE
    /\ syncDebounceTimers = {}
    /\ syncIntervalId = FALSE
    /\ startupPending = FALSE
    /\ reading = {}
    /\ calls = <<>>
    /\ startOrder = <<>>
    /\ reminders \in NativeListsB
    /\ journal = [d \in Days |-> NoFile]
    /\ now = StartInstantB
    /\ tz = 0
    /\ passA = idlePassA
    /\ passB = idlePassB
    /\ log = <<>>

NextG ==
    \/ \E outcome \in Outcomes, stdout \in Outputs : GetG(outcome, stdout)
    \/ \E k \in 1..Len(reminders), outcome \in Outcomes, done \in BOOLEAN :
          DeleteG(reminders[k].id, outcome, done)
    \/ \E outcome \in Outcomes, done \in BOOLEAN : CreateG(<<"milk">>, outcome, done)
    \/ \E k \in 1..Len(reminders), outcome \in Outcomes, done \in BOOLEAN :
          CompleteG(reminders[k].id, outcome, done)

SpecG == InitG /\ [][NextG]_vars

\* C26: no gateway call throws; when the external process fails or times out
\* runJXA returns null, getReminders returns the empty list, and deleteReminder,
\* createReminder and completeReminder return false; getReminders returns the
\* empty list on output that does not parse, too.
C26_GatewayNeverThrows ==
    \A k \in 1..Len(log) :
        /\ ~log[k].threw
        /\ log[k].outcome # "ok"
           => /\ log[k].raw = Null
              /\ log[k].returned = (IF log[k].op = "getReminders" THEN <<>> ELSE FALSE)
        /\ (log[k].op = "getReminders" /\ log[k].stdout = "garbage")
           => log[k].returned = <<>>

\* getReminders timed out on a native list that is not empty and returned the
\* empty list, then deleteReminder failed and returned false
C26_Witness ==
    /\ Len(log) = 2
    /\ reminders # <<>>
    /\ log[1].op = "getReminders" /\ log[1].outcome = "timeout"
    /\ log[1].returned = <<>>
    /\ log[2].op = "deleteReminder" /\ log[2].outcome = "error"
    /\ log[2].returned = FALSE

(***************************************************************************)
(* Activation: onload from the state after construction, with the platform *)
(* and the outcome of reading config.json as inputs, and the gate's        *)
(* triggers once they are registered.                                      *)
(***************************************************************************)
Commands ==
    {"sync-reminders-to-journal", "preview-sync-reminders",
     "sync-journals-to-reminders"}

\* lines 193-205: the config is read and parsed; a failure is logged, shown in
\* a Notice and thrown again; before it, the fault of filling in a default
\* configuration
loadConfigDefaults(ok) ==
    [threw |-> FALSE, notice |-> FALSE, config |-> IF ok THEN "file" ELSE "default"]
loadConfig(ok) ==
    [threw |-> ~ok, notice |-> ~ok, config |-> IF ok THEN "file" ELSE "none"]

\* onload went past `await this.loadConfig()`
Activated(macOS, loaded) == macOS /\ ~loaded.threw

\* what onload did
LoadEvent(macOS, ok, loaded, active) ==
    [op |-> "onload", macOS |-> macOS, configOk |-> ok,
     notice |-> IF ~macOS THEN "platform"
                ELSE IF loaded.notice THEN "config" ELSE "none",
     threw |-> macOS /\ loaded.threw,
     config |-> IF macOS THEN loaded.config ELSE "none",
     commands |-> IF active THEN Commands ELSE {},
     handlers |-> active]

\* lines 126-186, given what loadConfig did and config.autoSync
Activate(macOS, ok, loaded, autoSync) ==
    /\ log' = Append(log, LoadEvent(macOS, ok, loaded, Activated(macOS, loaded)))
    /\ syncIntervalId' = (Activated(macOS, loaded) /\ autoSync)
    /\ startupPending' = Activated(macOS, loaded)

onload(macOS, ok, autoSync) ==
    /\ log = <<>>
    /\ Activate(macOS, ok, loadConfig(ok), autoSync)
    /\ UNCHANGED <<syncLock, syncQueue, globalSyncing, syncDebounceTimers, reading,
                   calls, startOrder>>
    /\ UNCHANGED <<reminders, journal, now, tz, passA, passB>>

\* onload registered the command / the two workspace event handlers
Registered(id) ==
    \E k \in 1..Len(log) : log[k].op = "onload" /\ id \in log[k].commands
Handling == \E k \in 1..Len(log) : log[k].op = "onload" /\ log[k].handlers

CommandSyncReminders == Registered("sync-reminders-to-journal") /\ ManualSyncReminders
CommandSyncJournals == Registered("sync-journals-to-reminders") /\ ManualSyncJournals
CommandPreview(ok) == Registered("preview-sync-reminders") /\ PreviewCommand(ok)
FileEvent(f) == Handling /\ FileFocus(f)

\* the state after construction: the field initializers of lines 85-90
InitL ==
    /\ syncLock = FALSE
    /\ syncQueue = 0
    /\ globalSyncing = FALSE
    /\ syncDebounceTimers = {}
    /\ syncIntervalId = FALSE
    /\ startupPending = FALSE
    /\ reading = {}
    /\ calls = <<>>
    /\ startOrder = <<>>
    /\ reminders = <<[id |-> 1, title |-> <<"$", "cy", " ", "5">>, due |-> NoDue,
                      completed |-> FALSE]>>
    /\ journal = [d \in Days |-> NoFile]
    /\ now = 36
    /\ tz = 0
    /\ passA = idlePassA
    /\ passB = idlePassB
    /\ log = <<>>

NextL ==
    \/ \E macOS, ok, autoSync \in BOOLEAN : onload(macOS, ok, autoSync)
    \/ CommandSyncReminders
    \/ CommandSyncJournals
    \/ \E ok \in BOOLEAN : CommandPreview(ok)
    \/ AutoSyncTick
    \/ StartupSync
    \/ \E f \in Files : FileEvent(f)
    \/ \E f \in Files : DebounceFire(f)
    \/ \E f \in Files : FileReadSync(f)
    \/ \E f \in Files : FileReadSkip(f)
    \/ \E i \in 1..Len(calls) : Start(i)
    \/ \E i \in 1..Len(calls) : BodyDirectionA(i)
    \/ \E i \in 1..Len(calls) : BodyDelay(i)
    \/ \E i \in 1..Len(calls) : BodyDirectionB(i)
    \/ \E i \in 1..Len(calls) : BodyThrows(i)
    \/ \E i \in 1..Len(calls) : Finish(i)

SpecL == InitL /\ [][NextL]_vars

\* onload ran on macOS and config.json was missing or did not parse
ConfigFailed ==
    \E k \in 1..Len(log) : log[k].op = "onload" /\ log[k].macOS /\ ~log[k].configOk

\* C27: when the configuration is missing or unparsable, onload shows the
\* configuration notice and aborts with no configuration in place: no command
\* and no event handler is registered, the auto-sync timer is not started, no
\* startup pass is scheduled, and no sync is ever called or changes a store.
C27_ConfigFailureAborts ==
    ConfigFailed
    => /\ log[1].notice = "config" /\ log[1].threw /\ log[1].config = "none"
       /\ log[1].commands = {} /\ ~log[1].handlers
       /\ ~syncIntervalId /\ ~startupPending
       /\ syncDebounceTimers = {} /\ reading = {}
       /\ calls = <<>> /\ ~syncLock /\ Len(log) = 1
       /\ reminders = <<[id |-> 1, title |-> <<"$", "cy", " ", "5">>, due |-> NoDue,
                         completed |-> FALSE]>>
       /\ journal = [d \in Days |-> NoFile]

\* onload ran on macOS with a configuration that could not be loaded
C27_Witness ==
    /\ ConfigFailed
    /\ log[1].notice = "config"
    /\ calls = <<>>

(***************************************************************************)
(* The debounce of file-focus triggers in time: the gate with a clock of   *)
(* seconds since onload.  The history keeps the seconds that have passed   *)
(* and the calls of debounceSyncFile.                                      *)
(***************************************************************************)
MaxSeconds == 6
MaxTriggers == 3

\* line 814: the debounce delay, and line 185: the delay of the startup pass;
\* before the latter, the fault of a startup pass later than the debounce
DebounceDelay == 3
StartupDelayLate == DebounceDelay + 1
StartupDelay == 1

\* the seconds that had passed before entry k of the history
SecondsBefore(k) == Cardinality({j \in 1..(k - 1) : log[j].op = "second"})
Seconds == SecondsBefore(Len(log) + 1)

\* the calls of debounceSyncFile for a path, and those that set a timer
TriggersOf(f) == {k \in 1..Len(log) : log[k].op = "trigger" /\ log[k].path = f}
TimersSetFor(f) == {k \in TriggersOf(f) : ~log[k].dropped}

\* lines 786-789: if (this.globalSyncing) return; before it, the fault of no
\* such test
DroppedNever(global) == FALSE
Dropped(global) == global

\* lines 791-816: a timer of the path is cleared and a new one is set
TimersAfter(timers, f, dropped) == IF dropped THEN timers ELSE timers \cup {f}

\* when the pending timer of a path fires: the delay after the call that set
\* it, every call that is not dropped having cleared the timer before
DueAt(f) ==
    SecondsBefore(CHOOSE k \in TimersSetFor(f) : \A j \in TimersSetFor(f) : j <= k)
    + DebounceDelay

\* 'file-open' or 'active-leaf-change': debounceSyncFile(file)
debounceSyncFile(f) ==
    /\ Idle
    /\ Cardinality({k \in 1..Len(log) : log[k].op = "trigger"}) < MaxTriggers
    /\ log' = Append(log, [op |-> "trigger", path |-> f,
                           dropped |-> Dropped(globalSyncing)])
    /\ syncDebounceTimers' = TimersAfter(syncDebounceTimers, f, Dropped(globalSyncing))
    /\ UNCHANGED <<syncLock, syncQueue, globalSyncing, syncIntervalId,
                   startupPending, reading, calls, startOrder>>
    /\ UNCHANGED <<reminders, journal, now, tz, passA, passB>>

\* the timer of a path fires when it is due
TimerFires(f) == f \in syncDebounceTimers /\ Seconds = DueAt(f) /\ DebounceFire(f)

\* the onload timer fires when it is due
StartupFires == Seconds = StartupDelay /\ StartupSync

\* a second passes: no timer that is due is left waiting
SecondPasses ==
    /\ Idle
    /\ Seconds < MaxSeconds
    /\ startupPending => Seconds < StartupDelay
    /\ \A f \in syncDebounceTimers : Seconds < DueAt(f)
    /\ log' = Append(log, [op |-> "second", path |-> "", dropped |-> FALSE])
    /\ UNCHANGED gateVars
    /\ UNCHANGED <<reminders, journal, now, tz, passA, passB>>

FilesD == {"a.md", "b.md"}

\* the state after onload with a configuration without autoSync
InitD ==
    /\ syncLock = FALSE
    /\ syncQueue = 0
    /\ globalSyncing = FALSE
    /\ syncDebounceTimers = {}
    /\ syncIntervalId = FALSE
    /\ startupPending = TRUE
    /\ reading = {}
    /\ calls = <<>>
    /\ startOrder = <<>>
    /\ reminders = <<[id |-> 1, title |-> <<"$", "cy", " ", "5">>, due |-> NoDue,
                      completed |-> FALSE]>>
    /\ journal = [d \in Days |-> NoFile]
    /\ now = 36
    /\ tz = 0
    /\ passA = idlePassA
    /\ passB = idlePassB
    /\ log = <<>>

NextD ==
    \/ \E f \in FilesD : debounceSyncFile(f)
    \/ \E f \in FilesD : TimerFires(f)
    \/ StartupFires
    \/ SecondPasses
    \/ \E f \in FilesD : FileReadSync(f)
    \/ \E f \in FilesD : FileReadSkip(f)
    \/ \E i \in 1..Len(calls) : Start(i)
    \/ \E i \in 1..Len(calls) : BodyDirectionA(i)
    \/ \E i \in 1..Len(calls) : BodyDelay(i)
    \/ \E i \in 1..Len(calls) : BodyDirectionB(i)
    \/ \E i \in 1..Len(calls) : BodyThrows(i)
    \/ \E i \in 1..Len(calls) : Finish(i)

SpecD == InitD /\ [][NextD]_vars

(***************************************************************************)
(* Properties of the debounce.                                             *)
(***************************************************************************)
\* the step is a call of debounceSyncFile for the path
TriggerStep(f) ==
    /\ Len(log') = Len(log) + 1
    /\ log'[Len(log')].op = "trigger" /\ log'[Len(log')].path = f

\* the step is the firing of the timer of the path
FireStep(f) == f \in syncDebounceTimers /\ f \notin syncDebounceTimers'

\* the step is a call of syncFileWithReminders that the gate admits
FileSyncAdmitted ==
    /\ Len(calls') = Len(calls) + 1
    /\ calls'[Len(calls')].kind = "syncFileWithReminders"
    /\ calls'[Len(calls')].status = "queued"

\* the seconds at which a set of entries of the history was made
TimesOf(entries) == {SecondsBefore(k) : k \in entries}

\* after the step the timer of the path is pending and due a full delay later
Restarted(f) ==
    /\ f \in syncDebounceTimers'
    /\ \E k \in TimersSetFor(f)' :
          /\ \A j \in TimersSetFor(f)' : j <= k
          /\ SecondsBefore(k)' = Seconds

\* the step leaves the timers as they are
TimersUntouched(f) ==
    /\ syncDebounceTimers' = syncDebounceTimers
    /\ TimersSetFor(f)' = TimersSetFor(f)

\* the timer fires a full delay after the latest of the entries, none of them
\* being more recent
SettledSince(entries) ==
    /\ Seconds - DebounceDelay \in TimesOf(entries)
    /\ \A t \in TimesOf(entries) : t <= Seconds - DebounceDelay

C29_SkipsOnlyPast ==
    [][TaskDone
       => /\ NotPast(TaskHere) => Logged.op \in {"create", "exists", "complete", "none"}
          /\ Logged.op = "skip" => TaskHere.date < formatLocalDate(now, tz)]_vars

\* C30: a reminder created for a task without any time is due three hours
\* after now, and not before now, when the task is dated today and the local
\* time is 09:00 or later, and at 09:00 local on the task's date otherwise.
C30_InferredDue ==
    [][(/\ TaskDone
        /\ Logged.op = "create"
        /\ ~FinalTask(TaskHere).hasTime)
       => IF /\ TaskHere.date = formatLocalDate(now, tz)
             /\ LocalHour(now, tz) >= 9
          THEN Logged.due = now + 3 /\ Logged.due >= now
          ELSE Logged.due = LocalTime(TaskHere.date, 9, tz)]_vars

(***************************************************************************)
(* The note a classified entry goes to (Direction A, SpecA).               *)
(***************************************************************************)
\* the reminder of the fetched list of the current pass with this id
FetchedById(id) ==
    passA.list[CHOOSE k \in 1..Len(passA.list) : passA.list[k].id = id]

\* the instant an entry's date is taken from: the reminder's due timestamp, or
\* the moment of the classification when it has none
DateInstant(id) ==
    IF FetchedById(id).due # NoDue THEN FetchedById(id).due
    ELSE FetchOf(passA.n).instant

\* an instant lies on this calendar day of the clock at this offset from UTC
OnDay(instant, day, offset) ==
    /\ 24 * day <= instant + offset
    /\ instant + offset < 24 * (day + 1)

\* a merge of the current pass changed the note of this day and no other
WroteNote(day) ==
    /\ passA.pc = "merge"
    /\ journal'[day] # journal[day]
    /\ \A d \in Days \ {day} : journal'[d] = journal[d]

\* C31: every entry of a bucket is dated to the local calendar day of its
\* reminder's due timestamp, or of the classification moment when the
\* reminder has none, and a merge writes the bucket's lines to the note of
\* that day and to no other note.
C31_LocalDateNote ==
    /\ [][passA.pc = "merge" /\ journal' # journal
          => WroteNote(passA.buckets[passA.bi].date)]_vars
    /\ [](passA.pc \in {"merge", "delete"}
          => \A b \in 1..Len(passA.buckets) :
                \A i \in 1..Len(passA.buckets[b].items) :
                   /\ passA.buckets[b].items[i].date = passA.buckets[b].date
                   /\ OnDay(DateInstant(passA.buckets[b].items[i].id),
                            passA.buckets[b].date, tz))

\* a line was written to the note of a day that is not the UTC day of the
\* instant its entry was dated from
C31_Witness ==
    /\ passA.pc = "delete"
    /\ \E k \in EventsOf("merge", passA.n) :
          /\ log[k].bucket = passA.bi /\ log[k].ok /\ log[k].wrote # <<>>
    /\ \E i \in 1..Len(passA.buckets[passA.bi].items) :
          ~OnDay(DateInstant(passA.buckets[passA.bi].items[i].id),
                 passA.buckets[passA.bi].date, 0)

(***************************************************************************)
(* Completion of an extracted task (Direction B, SpecB).                   *)
(***************************************************************************)
\* the step took the task for a completed one: it completed the reminder it
\* found, or left the task alone for want of one
TakenCompleted == Logged.op \in {"complete", "none"}

\* C32: a task line that is not skipped for its date is taken for completed
\* exactly if its marker is a checked box ([x] or [X]) or the DONE keyword;
\* with an unchecked box or TODO it is taken for not completed whatever its
\* title holds.
C32_CompletionFromMarker ==
    [][(TaskDone /\ Logged.op # "skip")
       => (TakenCompleted <=> Checked(LineAt))]_vars

(***************************************************************************)
(* The reverse sweep after Direction B (SpecB).                            *)
(***************************************************************************)
\* the entries of the history a pass made for the task lines of a note
TaskOps == {"skip", "create", "exists", "complete", "none"}

\* the history holds a reverse sweep of this pass over this note, after
\* position k
SweptAfter(k, pass, file) ==
    \E m \in (k + 1)..Len(log) :
        log[m].op = "sweep" /\ log[m].pass = pass /\ log[m].file = file

\* C33: a pass of Direction B, in the folder variant (command, full pass) as
\* in the file variant (file focus), has ended only after the reverse sweep
\* ran over every note it processed a task line of.
C33_SweepFollowsEveryPass ==
    passB.pc = "done"
    => \A k \in 1..Len(log) :
          (log[k].pass = passB.n /\ log[k].op \in TaskOps)
          => SweptAfter(k, passB.n, log[k].file)

(***************************************************************************)
(* Task lines of days gone by (SpecB).                                     *)
(***************************************************************************)
\* the line is a task with an unchecked box or TODO, dated before the local
\* day of the clock
PastIncomplete(line) ==
    /\ TaskMatch(line).ok
    /\ line[MarkerPos(line)] \in {"[ ]", "TODO"}
    /\ TaskMatch(line).date < formatLocalDate(now, tz)

\* line i of the note of day d is the same after the step
LineKept(d, i) ==
    /\ journal'[d].exists
    /\ Len(journal'[d].lines) >= i
    /\ journal'[d].lines[i] = journal[d].lines[i]

\* the native list holds a completed reminder the gateway still returns, with
\* the title of the task and a due timestamp on the task's date (UTC)
CompletedMatch(task) ==
    \E k \in 1..Len(reminders) :
        /\ reminders[k].completed /\ reminders[k].due # NoDue
        /\ ~(reminders[k].due < now - RetentionHours)
        /\ reminders[k].title = CleanTitle(task.title)
        /\ 24 * task.date <= reminders[k].due
        /\ reminders[k].due < 24 * (task.date + 1)

\* line i of the note of day d was marked DONE by the reverse sweep
LineSwept(d, i) ==
    /\ passB.pc = "sweep"
    /\ journal'[d].exists
    /\ Len(journal'[d].lines) >= i
    /\ journal'[d].lines[i] = MarkedDone(journal[d].lines[i])
    /\ CompletedMatch(TaskMatch(journal[d].lines[i]))

\* the positions of the past-dated incomplete task lines of the journal
PastLines ==
    {di \in Days \X (1..4) :
        /\ journal[di[1]].exists
        /\ di[2] <= Len(journal[di[1]].lines)
        /\ PastIncomplete(journal[di[1]].lines[di[2]])}

\* C34 (amended): no step of Direction A or of the forward pass of Direction B
\* changes a journal line that is an incomplete task dated before the current
\* local day; the reverse sweep alone may change it, and then only its marker
\* to DONE, when the native list holds a completed reminder of its title and
\* date inside the retention window.
C34_PastLinesOnlySwept ==
    [][\A di \in PastLines :
          LineKept(di[1], di[2]) \/ LineSwept(di[1], di[2])]_vars

\* the reverse sweep has marked the line of a task of a day gone by
C34_Witness ==
    /\ passB.pc = "done" /\ passB.variant = "file"
    /\ log # <<>> /\ log[Len(log)].op = "sweep" /\ log[Len(log)].ok
    /\ formatLocalDate(now, tz) > 1
    /\ journal[2].exists
    /\ journal[2].lines[1] = <<"-", " ", "DONE", " ", "milk", " ", "@1">>

\* C34 (as stated): no step changes a journal line that is an incomplete task
\* dated before the current local day.
C34_PastLinesUntouched ==
    [][\A di \in PastLines : LineKept(di[1], di[2])]_vars

(***************************************************************************)
(* A failed read of the native list during Direction B (SpecB).            *)
(***************************************************************************)
\* C35: a step whose getReminders call failed and returned the empty list
\* creates a reminder for a task only if the native list holds no reminder
\* with the task's title and date.
C35_FailedReadCreatesNoDuplicate ==
    [][(TaskDone /\ Logged.op = "create" /\ Logged.ok /\ ~Logged.read)
       => FoundIn(reminders, FinalTask(TaskHere)) = 0]_vars

(***************************************************************************)
(* Reminders made by Direction B and Direction A (SpecC).                  *)
(***************************************************************************)
\* the native list holds a reminder with this id
InList(id) == \E k \in 1..Len(reminders) : reminders[k].id = id

\* C36: a reminder Direction B created for a journal task stays in the native
\* list through every later pass: Direction A does not merge it into a note
\* and delete it.
C36_CreatedNeverConsumed ==
    \A k \in 1..Len(log) :
        (log[k].op = "create" /\ log[k].ok) => InList(log[k].id)

(***************************************************************************)
(* The lock at the moment of a submission (Spec).                          *)
(***************************************************************************)
\* the calls that were admitted and have not settled
Unsettled == {i \in 1..Len(calls) : Admitted(i) /\ ~Settled(i)}

\* the step is the submission of a skipIfBusy call that is admitted
SkipIfBusyAdmitted ==
    /\ Len(calls') = Len(calls) + 1
    /\ calls'[Len(calls')].skipIfBusy
    /\ calls'[Len(calls')].status = "queued"

\* C37 (amended): a skipIfBusy call is admitted only when no admitted call is
\* running or waiting to start, so it never waits behind other work; at every
\* moment at which a call can be submitted, when no microtask is pending,
\* syncLock is true if an admitted call has not settled.
C37_AdmittedNeverWaits ==
    /\ [][SkipIfBusyAdmitted
          => /\ Unsettled = {}
             /\ QueueState(calls'[Len(calls')].waitsOn) = "fulfilled"]_vars
    /\ [](Idle => (Unsettled # {} => syncLock))

\* a skipIfBusy call was admitted after an earlier call had settled, and runs
C37_Witness ==
    /\ Len(calls) >= 2
    /\ Settled(1)
    /\ calls[2].skipIfBusy /\ calls[2].status = "running"
    /\ syncLock

\* C37 (as stated): syncLock is true whenever an admitted call has not
\* settled.
C37_LockHeldWhileUnsettled == Unsettled # {} => syncLock

(***************************************************************************)
(* Unloading the plugin: the gate with its timers, and onunload.  Obsidian *)
(* removes the commands and detaches the handlers given to registerEvent   *)
(* when a plugin is unloaded; timers made with window.setInterval and      *)
(* setTimeout are the plugin's to clear.                                   *)
(***************************************************************************)
\* onunload has run
Unloaded == \E k \in 1..Len(log) : log[k].op = "unload"

\* lines 216-222: window.clearInterval(this.syncIntervalId);
\* this.syncIntervalId = null
stopAutoSync(interval) == FALSE

\* lines 188-191: console.log(...); this.stopAutoSync()
onunload ==
    /\ Idle
    /\ ~Unloaded
    /\ syncIntervalId' = stopAutoSync(syncIntervalId)
    /\ log' = Append(log, [op |-> "unload"])
    /\ UNCHANGED <<syncLock, syncQueue, globalSyncing, syncDebounceTimers,
                   startupPending, reading, calls, startOrder>>
    /\ UNCHANGED <<reminders, journal, now, tz, passA, passB>>

\* the state after onload with config.autoSync set
InitU ==
    /\ syncLock = FALSE
    /\ syncQueue = 0
    /\ globalSyncing = FALSE
    /\ syncDebounceTimers = {}
    /\ syncIntervalId = TRUE
    /\ startupPending = TRUE
    /\ reading = {}
    /\ calls = <<>>
    /\ startOrder = <<>>
    /\ reminders = <<[id |-> 1, title |-> <<"$", "cy", " ", "5">>, due |-> NoDue,
                      completed |-> FALSE]>>
    /\ journal = [d \in Days |-> NoFile]
    /\ now = 36
    /\ tz = 0
    /\ passA = idlePassA
    /\ passB = idlePassB
    /\ log = <<>>

NextU ==
    \/ ~Unloaded /\ ManualSyncReminders
    \/ ~Unloaded /\ ManualSyncJournals
    \/ \E f \in Files : ~Unloaded /\ FileFocus(f)
    \/ onunload
    \/ AutoSyncTick
    \/ StartupSync
    \/ \E f \in Files : DebounceFire(f)
    \/ \E f \in Files : FileReadSync(f)
    \/ \E f \in Files : FileReadSkip(f)
    \/ \E i \in 1..Len(calls) : Start(i)
    \/ \E i \in 1..Len(calls) : BodyDirectionA(i)
    \/ \E i \in 1..Len(calls) : BodyDelay(i)
    \/ \E i \in 1..Len(calls) : BodyDirectionB(i)
    \/ \E i \in 1..Len(calls) : BodyThrows(i)
    \/ \E i \in 1..Len(calls) : Finish(i)

SpecU == InitU /\ [][NextU]_vars

\* the step is a call of withSyncLock that the gate admits
SyncAdmitted ==
    /\ Len(calls') = Len(calls) + 1
    /\ calls'[Len(calls')].status = "queued"

\* C38: once onunload has run, the auto-sync interval, every debounce timer
\* and the startup timer are cancelled, and no sync is submitted any more.
C38_NoSyncAfterUnload ==
    /\ [](Unloaded => /\ ~syncIntervalId
                      /\ syncDebounceTimers = {}
                      /\ ~startupPending)
    /\ [][Unloaded => ~SyncAdmitted]_vars

(***************************************************************************)
(* What a deleted reminder leaves in the journal (SpecA).                  *)
(***************************************************************************)
\* the note of this day holds the record as a line of its own
HasOwnLine(day, record) ==
    /\ journal[day].exists
    /\ \E i \in 1..Len(journal[day].lines) : journal[day].lines[i] = record

\* the step is a deleteReminder call that took effect
DeletedNow ==
    /\ Len(log') = Len(log) + 1
    /\ log'[Len(log')].op = "delete" /\ log'[Len(log')].ok

\* C39: when Direction A deletes a reminder, the journal note of the entry's
\* date holds the entry's rendered line as a complete line of its own,
\* whatever the note held before the merge.
C39_DeletedEntryHasOwnLine ==
    [][DeletedNow
       => \A e \in CurrentEntries(log'[Len(log')].id) :
             HasOwnLine(e.date, e.record)]_vars

(***************************************************************************)
(* The startup pass and the file syncs in time: the gate with the clock of *)
(* seconds, one path, and a command the owner may give at any moment.      *)
(***************************************************************************)
NextS ==
    \/ ManualSyncJournals
    \/ \E f \in Files : debounceSyncFile(f)
    \/ \E f \in Files : TimerFires(f)
    \/ StartupFires
    \/ SecondPasses
    \/ \E f \in Files : FileReadSync(f)
    \/ \E f \in Files : FileReadSkip(f)
    \/ \E i \in 1..Len(calls) : Start(i)
    \/ \E i \in 1..Len(calls) : BodyDirectionA(i)
    \/ \E i \in 1..Len(calls) : BodyDelay(i)
    \/ \E i \in 1..Len(calls) : BodyDirectionB(i)
    \/ \E i \in 1..Len(calls) : BodyThrows(i)
    \/ \E i \in 1..Len(calls) : Finish(i)

SpecS == InitD /\ [][NextS]_vars

\* the startup full passes that were submitted and have not settled
StartupPasses ==
    {i \in 1..Len(calls) :
        calls[i].kind = "performFullSync" /\ calls[i].status \in {"queued", "running"}}

\* the file syncs whose body is executing
FileSyncsRunning ==
    {i \in 1..Len(calls) :
        calls[i].kind = "syncFileWithReminders" /\ calls[i].status = "running"}

\* C40: globalSyncing is true exactly while the startup full pass has been
\* called and has not settled, whether it ends by returning or by throwing,
\* and while it is true no body of syncFileWithReminders executes.
C40_GlobalSyncingSpansStartup ==
    /\ globalSyncing <=> StartupPasses # {}
    /\ globalSyncing => FileSyncsRunning = {}

\* the startup pass waited behind a command, a file sync was skipped while it
\* ran, it threw, and the flag is down
C40_Witness ==
    /\ ~globalSyncing
    /\ Len(calls) = 3
    /\ calls[1].kind = "syncJournalsToReminders" /\ Settled(1)
    /\ calls[2].kind = "performFullSync" /\ calls[2].busy
    /\ calls[2].status = "rejected" /\ calls[2].runs = 1
    /\ calls[3].kind = "syncFileWithReminders" /\ calls[3].status = "skipped"
====
